---- MODULE Spec2Model ----
(***************************************************************************)
(* Model of photo-sync-tst: a day-partitioned catalog of object IDs        *)
(* (LocalStorage, src/src/local_storage.rs) with a three-tier digest       *)
(* index, and the pairwise reconciliation of two catalogs                  *)
(* (CatalogNode::sync_with_peers, src/src/catalog.rs).                     *)
(*                                                                         *)
(* Byte strings (ObjectIds, peer labels) are sequences of small naturals.  *)
(* SHA-256 is modelled as an ideal, collision-free hash: the digest of a   *)
(* byte string is a value that wraps the byte string, so two digests are   *)
(* equal exactly when the hashed byte strings are.  A digest that is fed   *)
(* into a parent hasher is one fixed-width block of the parent's input.    *)
(***************************************************************************)
EXTENDS Integers, Sequences, FiniteSets, TLC

\* ---------------------------------------------------------------- bounds

\* add_photos_to_day calls made from outside on one node (StorageSpec, PairSpec)
MaxAdds == 2

\* propose calls made from outside on all nodes together (Spec)
MaxProposals == 2

\* length of a node's roster
MaxPeers == 1

\* number of keys of an input of calc_diff (DiffSpec)
MaxKeys == 4

\* length of A's roster (RosterSpec)
MaxRoster == 2

\* ------------------------------------------------------------ input sets

Nodes == {"A", "B"}

\* 2021-01-01, 2021-01-02 (same month), 2021-02-01 (same year), 2022-01-01
Days == {20210101, 20210102, 20210201, 20220101}

\* the ymd arguments tried on a single storage: the days, and 20211332, a key
\* that is no calendar day (month 13, day 32)
StorageDays == Days \cup {20211332}

o0 == <<0>>
o1 == <<1>>
o01 == <<0, 1>>
oEmpty == <<>>
p0 == <<0>>
p1 == <<1>>

Oids == {o0, o1, o01, oEmpty}
PeerLabels == {p0, p1}

\* the new_photos arguments tried on a single storage
EntryLists ==
    { <<>>,
      << <<o0, <<p0>>>> >>,
      << <<o1, <<p0>>>> >>,
      << <<o0, <<p1>>>> >>,
      << <<oEmpty, <<p0>>>> >>,
      << <<o1, <<p1>>>>, <<o0, <<p0>>>> >> }

\* the ymd and new_photos arguments tried on a pair of storages
PairDays == {20210101, 20210102, 20210201}
PairLists ==
    { << <<o0, <<p0>>>> >>,
      << <<o1, <<p0>>>> >>,
      << <<o0, <<p1>>>> >> }

\* the ymd and data arguments of the propose calls made from outside
\* 2021-01-01, 2021-01-02 (same month), 2021-02-01 (same year)
ProposeDays == {20210101, 20210102, 20210201}
ProposeLists ==
    { << <<o0, <<p0>>>> >>,
      << <<o1, <<p1>>>> >>,
      << <<o0, <<p1>>>> >> }

\* the ymd and new_photos arguments of the calls that repeat an ObjectId
\* within one list, or a label within one peer list
MergeDays == {20210101, 20210102}
MergeLists ==
    { << <<o0, <<p0>>>> >>,
      << <<o0, <<p0>>>>, <<o0, <<p1>>>> >>,
      << <<o1, <<p0>>>>, <<o0, <<p0>>>>, <<o1, <<p1>>>> >>,
      << <<o0, <<p1, p1>>>> >>,
      << <<o0, <<p1, p0>>>> >>,
      << <<o01, <<p1>>>>, <<oEmpty, <<p0>>>> >> }

\* the nodes, the ymd and the data arguments of RosterSpec
RosterNodes == {"A", "B", "C"}
RosterDays == {20210101}
RosterLists ==
    { << <<o0, <<p0>>>> >>,
      << <<o1, <<p1>>>> >> }

\* the threads that call sync_with_peers
Threads == {"t1", "t2"}

\* ----------------------------------------------------------------- state

VARIABLES
    DATA,       \* DATA[n]: table data_in_day of node n, ymd -> Vec<(Data, Vec<Peer>)>
    CHK_YMD,    \* CHK_YMD[n]: table checksum_day of node n
    CHK_YM,     \* CHK_YM[n]: table checksum_month of node n
    CHK_Y,      \* CHK_Y[n]: table checksum_year of node n
    last,       \* last[n]: the last add_photos_to_day call committed on n and its result
    adds,       \* adds[n]: add_photos_to_day / propose calls made from outside on n
    peers,      \* peers[n]: CatalogNode.peers of node n, the roster
    sync_mutex, \* sync_mutex[n]: TRUE while CatalogNode.sync_mutex of n is locked
    thread,     \* thread[t]: where thread t is in sync_with_peers, what it has called and
                \* compared for the peer at hand, and what it returned
    local,      \* calc_diff's first argument (DiffSpec)
    remote,     \* calc_diff's second argument (DiffSpec)
    diff,       \* what calc_diff(local, remote) returned, <<>> before the call (DiffSpec)
    write_txn,  \* write_txn[n]: the open write transaction of node n, NoTxn when none
    answer      \* what the last read of LocalStorage called from outside returned

vars == <<DATA, CHK_YMD, CHK_YM, CHK_Y, last, adds, peers, sync_mutex, thread,
          local, remote, diff, write_txn, answer>>
tables == <<DATA, CHK_YMD, CHK_YM, CHK_Y>>

\* ------------------------------------------------------- ordered tables

\* a table without rows
EmptyTable == [k \in {} |-> <<>>]

\* table.insert(k, v)
insert(tbl, k, v) == [x \in (DOMAIN tbl) \cup {k} |-> IF x = k THEN v ELSE tbl[x]]

RECURSIVE Ascending(_)
\* the keys of S in ascending order, as the ordered table's iterator yields them
Ascending(S) ==
    IF S = {} THEN <<>>
    ELSE LET m == CHOOSE x \in S : \A y \in S : x <= y
         IN  <<m>> \o Ascending(S \ {m})

\* table.range(lo..=hi): the rows with lo <= key <= hi, ascending by key
range(tbl, lo, hi) ==
    LET ks == Ascending({k \in DOMAIN tbl : lo <= k /\ k <= hi})
    IN  [i \in 1..Len(ks) |-> <<ks[i], tbl[ks[i]]>>]

\* table.iter(): all rows, ascending by key
iter(tbl) ==
    LET ks == Ascending(DOMAIN tbl)
    IN  [i \in 1..Len(ks) |-> <<ks[i], tbl[ks[i]]>>]

\* --------------------------------------------------------- opaque dates

ymd_interval_for_y(year) == <<year * 10000 + 101, year * 10000 + 1231>>
ymd_interval_for_ym(year_month) == <<year_month * 100 + 1, year_month * 100 + 31>>
ym_range_for_y(year) == <<year * 100 + 1, year * 100 + 12>>
ymd_range_for_ym(year_month) == <<year_month * 100 + 1, year_month * 100 + 31>>
ymd_to_ym(year_month_day) == year_month_day \div 100
ym_to_y(year_month) == year_month \div 100

\* ---------------------------------------------------------------- hashing

\* Sha256::new() ... update(..) ... finalize(): the digest of the bytes fed
Sha256(fed) == <<"sha256", fed>>

RECURSIVE Concat(_)
\* the bytes a hasher has seen after update(s[1]), update(s[2]), ...
Concat(s) == IF s = <<>> THEN <<>> ELSE Head(s) \o Concat(Tail(s))

\* calc_photos_checksum, hashing the peer labels too
calc_photos_checksum_with_peers(photos) ==
    Sha256(Concat([i \in 1..Len(photos) |-> photos[i][1] \o Concat(photos[i][2])]))

\* calc_photos_checksum: the ObjectIds only, in the order stored
calc_photos_checksum(photos) ==
    Sha256(Concat([i \in 1..Len(photos) |-> photos[i][1]]))

\* ---------------------------------------------- Ord of (Data, Vec<Peer>)

RECURSIVE BytesLess(_, _)
\* Vec<u8> < Vec<u8>: lexicographic, a proper prefix is smaller
BytesLess(a, b) ==
    IF b = <<>> THEN FALSE
    ELSE IF a = <<>> THEN TRUE
    ELSE IF Head(a) # Head(b) THEN Head(a) < Head(b)
    ELSE BytesLess(Tail(a), Tail(b))

RECURSIVE PeersLess(_, _)
\* Vec<Peer> < Vec<Peer>: lexicographic over the labels
PeersLess(a, b) ==
    IF b = <<>> THEN FALSE
    ELSE IF a = <<>> THEN TRUE
    ELSE IF Head(a) # Head(b) THEN BytesLess(Head(a), Head(b))
    ELSE PeersLess(Tail(a), Tail(b))

\* (Data, Vec<Peer>) < (Data, Vec<Peer>): by ObjectId, then by peer list
PhotoLess(x, y) ==
    IF x[1] # y[1] THEN BytesLess(x[1], y[1]) ELSE PeersLess(x[2], y[2])

RECURSIVE sort_insert(_, _)
sort_insert(x, s) ==
    IF s = <<>> THEN <<x>>
    ELSE IF PhotoLess(Head(s), x) THEN <<Head(s)>> \o sort_insert(x, Tail(s))
    ELSE <<x>> \o s

RECURSIVE sorted(_)
\* photos.sort(), written as a value
sorted(s) == IF s = <<>> THEN <<>> ELSE sort_insert(Head(s), sorted(Tail(s)))

\* photos.sort() left out
sort_omitted(photos) == photos

\* photos.sort()
sort(photos) == sorted(photos)

\* ------------------------------------------------------- LocalStorage

\* the four tables of one node
Storage(n) ==
    [DATA |-> DATA[n], CHK_YMD |-> CHK_YMD[n], CHK_YM |-> CHK_YM[n], CHK_Y |-> CHK_Y[n]]

EmptyStorage ==
    [DATA |-> EmptyTable, CHK_YMD |-> EmptyTable, CHK_YM |-> EmptyTable, CHK_Y |-> EmptyTable]

\* the loop body of add_photos_to_day without the search for the ObjectId
merge_photo_push(photos, new_photo) == Append(photos, new_photo)

\* the loop body of add_photos_to_day: merge one incoming entry into photos
merge_photo(photos, new_photo) ==
    IF \E i \in 1..Len(photos) : photos[i][1] = new_photo[1]
    THEN LET i == CHOOSE j \in 1..Len(photos) :
                      /\ photos[j][1] = new_photo[1]
                      /\ \A k \in 1..(j - 1) : photos[k][1] # new_photo[1]
             has(p) == \E k \in 1..Len(photos[i][2]) : photos[i][2][k] = p
             peers_to_add == SelectSeq(new_photo[2], LAMBDA p : ~has(p))
         IN  [photos EXCEPT ![i] = <<photos[i][1], photos[i][2] \o peers_to_add>>]
    ELSE Append(photos, new_photo)

RECURSIVE merge_found(_, _)
\* the entries of new_photos whose ObjectId is among photos, merged into photos
merge_found(photos, new_photos) ==
    IF new_photos = <<>> THEN photos
    ELSE IF \E i \in 1..Len(photos) : photos[i][1] = Head(new_photos)[1]
    THEN merge_found(merge_photo(photos, Head(new_photos)), Tail(new_photos))
    ELSE merge_found(photos, Tail(new_photos))

\* the loop of add_photos_to_day searching only the rows read from the table,
\* not the entries pushed earlier in the same call
merge_photos_stored_only(photos, new_photos) ==
    merge_found(photos, new_photos)
        \o SelectSeq(new_photos,
                     LAMBDA np : \A i \in 1..Len(photos) : photos[i][1] # np[1])

RECURSIVE merge_photos(_, _)
\* for new_photo in new_photos { ... }
merge_photos(photos, new_photos) ==
    IF new_photos = <<>> THEN photos
    ELSE merge_photos(merge_photo(photos, Head(new_photos)), Tail(new_photos))

\* the digests of the rows of a range scan, in the order scanned
digests_of(rows) == [i \in 1..Len(rows) |-> rows[i][2]]

\* update_day_checksum writing the month digest under the year's first month
update_day_checksum_wrong_month(st, ymd, day_checksum) ==
    LET chk_ymd == insert(st.CHK_YMD, ymd, day_checksum)
        ym == ymd_to_ym(ymd)
        r_ym == ymd_range_for_ym(ym)
        y == ym_to_y(ym)
        chk_ym == insert(st.CHK_YM, y * 100 + 1,
                         Sha256(digests_of(range(chk_ymd, r_ym[1], r_ym[2]))))
        r_y == ym_range_for_y(y)
        chk_y == insert(st.CHK_Y, y, Sha256(digests_of(range(chk_ym, r_y[1], r_y[2]))))
    IN  [st EXCEPT !.CHK_YMD = chk_ymd, !.CHK_YM = chk_ym, !.CHK_Y = chk_y]

\* update_day_checksum that leaves the year digest as it was once it exists
update_day_checksum_stale_year(st, ymd, day_checksum) ==
    LET chk_ymd == insert(st.CHK_YMD, ymd, day_checksum)
        ym == ymd_to_ym(ymd)
        r_ym == ymd_range_for_ym(ym)
        chk_ym == insert(st.CHK_YM, ym, Sha256(digests_of(range(chk_ymd, r_ym[1], r_ym[2]))))
        y == ym_to_y(ym)
        r_y == ym_range_for_y(y)
        chk_y == IF y \in DOMAIN st.CHK_Y THEN st.CHK_Y
                 ELSE insert(st.CHK_Y, y, Sha256(digests_of(range(chk_ym, r_y[1], r_y[2]))))
    IN  [st EXCEPT !.CHK_YMD = chk_ymd, !.CHK_YM = chk_ym, !.CHK_Y = chk_y]

\* update_day_checksum that hashes the month's days before the day digest is written
update_day_checksum_month_first(st, ymd, day_checksum) ==
    LET ym == ymd_to_ym(ymd)
        r_ym == ymd_range_for_ym(ym)
        chk_ym == insert(st.CHK_YM, ym, Sha256(digests_of(range(st.CHK_YMD, r_ym[1], r_ym[2]))))
        chk_ymd == insert(st.CHK_YMD, ymd, day_checksum)
        y == ym_to_y(ym)
        r_y == ym_range_for_y(y)
        chk_y == insert(st.CHK_Y, y, Sha256(digests_of(range(chk_ym, r_y[1], r_y[2]))))
    IN  [st EXCEPT !.CHK_YMD = chk_ymd, !.CHK_YM = chk_ym, !.CHK_Y = chk_y]

\* update_day_checksum: day digest, then the month's, then the year's
update_day_checksum(st, ymd, day_checksum) ==
    LET chk_ymd == insert(st.CHK_YMD, ymd, day_checksum)
        ym == ymd_to_ym(ymd)
        r_ym == ymd_range_for_ym(ym)
        chk_ym == insert(st.CHK_YM, ym, Sha256(digests_of(range(chk_ymd, r_ym[1], r_ym[2]))))
        y == ym_to_y(ym)
        r_y == ym_range_for_y(y)
        chk_y == insert(st.CHK_Y, y, Sha256(digests_of(range(chk_ym, r_y[1], r_y[2]))))
    IN  [st EXCEPT !.CHK_YMD = chk_ymd, !.CHK_YM = chk_ym, !.CHK_Y = chk_y]

\* add_txn with the digest taken of the rows read, before the loop
add_txn_digest_of_stored(st, ymd, new_photos) ==
    LET stored == IF ymd \in DOMAIN st.DATA THEN st.DATA[ymd] ELSE <<>>
        photos == sort(merge_photos(stored, new_photos))
        new_checksum == calc_photos_checksum(stored)
        written == [st EXCEPT !.DATA = insert(st.DATA, ymd, photos)]
    IN  [st |-> update_day_checksum(written, ymd, new_checksum), result |-> new_checksum]

\* add_txn that writes the incoming entries over the rows stored for the day
add_txn_replaces_day(st, ymd, new_photos) ==
    LET photos == sort(merge_photos(<<>>, new_photos))
        new_checksum == calc_photos_checksum(photos)
        written == [st EXCEPT !.DATA = insert(st.DATA, ymd, photos)]
    IN  [st |-> update_day_checksum(written, ymd, new_checksum), result |-> new_checksum]

\* the write transaction of add_photos_to_day on storage st:
\* [st |-> the tables committed, result |-> the digest returned]
add_txn(st, ymd, new_photos) ==
    LET stored == IF ymd \in DOMAIN st.DATA THEN st.DATA[ymd] ELSE <<>>
        photos == sort(merge_photos(stored, new_photos))
        new_checksum == calc_photos_checksum(photos)
        written == [st EXCEPT !.DATA = insert(st.DATA, ymd, photos)]
    IN  [st |-> update_day_checksum(written, ymd, new_checksum), result |-> new_checksum]

\* the reads of LocalStorage, on storage st
get_years_checksums(st) == iter(st.CHK_Y)
get_months_checksum(st, y) == range(st.CHK_YM, ym_range_for_y(y)[1], ym_range_for_y(y)[2])
get_days_checksum(st, ym) == range(st.CHK_YMD, ymd_range_for_ym(ym)[1], ymd_range_for_ym(ym)[2])
get_existing_days_in_range(st, ymd_from, ymd_to) ==
    LET rows == range(st.CHK_YMD, ymd_from, ymd_to)
    IN  [i \in 1..Len(rows) |-> rows[i][1]]
\* Option<Vec<..>>: <<>> is None, <<photos>> is Some(photos)
get_photos(st, ymd) == IF ymd \in DOMAIN st.DATA THEN <<st.DATA[ymd]>> ELSE <<>>

\* ------------------------------------------------------------ calc_diff

RECURSIVE calc_diff_walk(_, _, _, _, _, _, _)
\* the while loop and the two tails of calc_diff, from indexes l_ind, r_ind
calc_diff_walk(loc, rem, l_ind, r_ind, missing_on_local, missing_on_remote, different) ==
    IF l_ind <= Len(loc) /\ r_ind <= Len(rem)
    THEN IF loc[l_ind][1] < rem[r_ind][1]
         THEN calc_diff_walk(loc, rem, l_ind + 1, r_ind, missing_on_local,
                             Append(missing_on_remote, loc[l_ind][1]), different)
         ELSE IF loc[l_ind][1] > rem[r_ind][1]
         THEN calc_diff_walk(loc, rem, l_ind, r_ind + 1,
                             Append(missing_on_local, rem[r_ind][1]),
                             missing_on_remote, different)
         ELSE calc_diff_walk(loc, rem, l_ind + 1, r_ind + 1, missing_on_local,
                             missing_on_remote,
                             IF loc[l_ind][2] # rem[r_ind][2]
                             THEN Append(different, loc[l_ind][1]) ELSE different)
    ELSE << missing_on_local \o [i \in 1..(Len(rem) - r_ind + 1) |-> rem[r_ind + i - 1][1]],
            missing_on_remote \o [i \in 1..(Len(loc) - l_ind + 1) |-> loc[l_ind + i - 1][1]],
            different >>

\* calc_diff that takes every key present on both sides as different
calc_diff_keys_only(loc, rem) ==
    LET d == calc_diff_walk(loc, rem, 1, 1, <<>>, <<>>, <<>>)
        both == SelectSeq([i \in 1..Len(loc) |-> loc[i][1]],
                          LAMBDA k : \E j \in 1..Len(rem) : rem[j][1] = k)
    IN  <<d[1], d[2], both>>

\* calc_diff that returns missing_on_remote first and missing_on_local second
calc_diff_swapped(loc, rem) ==
    LET d == calc_diff_walk(loc, rem, 1, 1, <<>>, <<>>, <<>>)
    IN  <<d[2], d[1], d[3]>>

\* calc_diff(local, remote) = <<missing_on_local, missing_on_remote, different>>
calc_diff(loc, rem) == calc_diff_walk(loc, rem, 1, 1, <<>>, <<>>, <<>>)

\* ----------------------------------------------------------------- Init

NoCall == [ymd |-> 0, new_photos |-> <<>>, result |-> <<>>, repeated |-> FALSE]

\* no write transaction is open
NoTxn == [pc |-> "none"]

\* no read has been called
NoAnswer == [op |-> "none"]

\* a thread outside sync_with_peers whose last call is no longer the latest operation
IdleThread ==
    [pc |-> "idle", node |-> "", peers |-> <<>>, todo |-> <<>>, result |-> "none",
     calls |-> <<>>, compared |-> <<>>, roster |-> <<>>, undisturbed |-> FALSE]

\* the state after CatalogNode::test_new of every node
Init ==
    /\ DATA = [n \in Nodes |-> EmptyTable]
    /\ CHK_YMD = [n \in Nodes |-> EmptyTable]
    /\ CHK_YM = [n \in Nodes |-> EmptyTable]
    /\ CHK_Y = [n \in Nodes |-> EmptyTable]
    /\ last = [n \in Nodes |-> NoCall]
    /\ adds = [n \in Nodes |-> 0]
    /\ peers = [n \in Nodes |-> <<>>]
    /\ sync_mutex = [n \in Nodes |-> FALSE]
    /\ thread = [t \in Threads |-> IdleThread]
    /\ local = <<>>
    /\ remote = <<>>
    /\ diff = <<>>
    /\ write_txn = [n \in Nodes |-> NoTxn]
    /\ answer = NoAnswer

\* ------------------------------------------------------- LocalStorage calls

\* commit of add_txn on node n
commit(n, ymd, new_photos) ==
    LET t == add_txn(Storage(n), ymd, new_photos)
    IN  /\ DATA' = [DATA EXCEPT ![n] = t.st.DATA]
        /\ CHK_YMD' = [CHK_YMD EXCEPT ![n] = t.st.CHK_YMD]
        /\ CHK_YM' = [CHK_YM EXCEPT ![n] = t.st.CHK_YM]
        /\ CHK_Y' = [CHK_Y EXCEPT ![n] = t.st.CHK_Y]
        /\ last' = [last EXCEPT ![n] =
                       [ymd |-> ymd, new_photos |-> new_photos, result |-> t.result,
                        repeated |-> (adds[n] > 0 /\ last[n].ymd = ymd
                                      /\ last[n].new_photos = new_photos)]]

\* LocalStorage::add_photos_to_day(ymd, new_photos) on node n, called from outside
add_photos_to_day(n, ymd, new_photos) ==
    /\ adds[n] < MaxAdds
    /\ adds' = [adds EXCEPT ![n] = @ + 1]
    /\ commit(n, ymd, new_photos)
    /\ UNCHANGED <<peers, sync_mutex, thread, local, remote, diff, write_txn, answer>>

\* one storage, every entry list
StorageNext == \E ymd \in StorageDays, e \in EntryLists : add_photos_to_day("A", ymd, e)

StorageSpec == Init /\ [][StorageNext]_vars

\* two storages, filled independently
PairNext == \E n \in Nodes, ymd \in PairDays, e \in PairLists : add_photos_to_day(n, ymd, e)

PairSpec == Init /\ [][PairNext]_vars

\* one storage, lists with repeated ObjectIds and repeated labels
MergeNext == \E ymd \in MergeDays, e \in MergeLists : add_photos_to_day("A", ymd, e)

MergeSpec == Init /\ [][MergeNext]_vars

\* ------------------------------------------------------ LocalStorage reads

\* read_txn.open_table(T) finds T once a committed write transaction has opened
\* it.  Every write transaction opens all four tables and inserts a row into
\* each, and no row is ever removed: the tables that exist are those with rows.
table_exists(tbl) == DOMAIN tbl # {}

\* Result<..>
Ok(v) == [ok |-> TRUE, value |-> v]
Err(e) == [ok |-> FALSE, value |-> e]

\* match read_txn.open_table(T) with every error returned to the caller
open_table_or_fail(tbl, value) ==
    IF table_exists(tbl) THEN Ok(value) ELSE Err("TableDoesNotExist")

\* match read_txn.open_table(T): TableDoesNotExist is the empty result (<<>> is
\* Vec::new() and None), otherwise value is what the body of the read returns
open_table_or_empty(tbl, value) ==
    IF table_exists(tbl) THEN Ok(value) ELSE Ok(<<>>)

\* a read of node n called from outside returns result; nothing else changes
\* (txn: the step the write transaction of n is at when the read is made)
read(n, op, arg, result) ==
    /\ answer' = [op |-> op, on |-> n, arg |-> arg, txn |-> write_txn[n].pc,
                  result |-> result]
    /\ UNCHANGED <<DATA, CHK_YMD, CHK_YM, CHK_Y, last, adds, peers, sync_mutex, thread,
                   local, remote, diff, write_txn>>

get_years_checksums_call(n) ==
    read(n, "get_years_checksums", <<>>,
         open_table_or_empty(CHK_Y[n], get_years_checksums(Storage(n))))

get_months_checksum_call(n, y) ==
    read(n, "get_months_checksum", <<y>>,
         open_table_or_empty(CHK_YM[n], get_months_checksum(Storage(n), y)))

get_days_checksum_call(n, ym) ==
    read(n, "get_days_checksum", <<ym>>,
         open_table_or_empty(CHK_YMD[n], get_days_checksum(Storage(n), ym)))

get_existing_days_in_range_call(n, ymd_from, ymd_to) ==
    read(n, "get_existing_days_in_range", <<ymd_from, ymd_to>>,
         open_table_or_empty(CHK_YMD[n],
                             get_existing_days_in_range(Storage(n), ymd_from, ymd_to)))

get_photos_call(n, ymd) ==
    read(n, "get_photos", <<ymd>>, open_table_or_empty(DATA[n], get_photos(Storage(n), ymd)))

\* the years, months and day intervals asked for
ReadYears == {2021, 2022}
ReadMonths == {202101, 202102}
ReadIntervals == {ymd_interval_for_ym(202101), ymd_interval_for_y(2021), <<20210102, 20210101>>}

\* one storage: add_photos_to_day and the five reads, in any order
ReadNext ==
    \/ \E ymd \in PairDays, e \in PairLists : add_photos_to_day("A", ymd, e)
    \/ get_years_checksums_call("A")
    \/ \E y \in ReadYears : get_months_checksum_call("A", y)
    \/ \E ym \in ReadMonths : get_days_checksum_call("A", ym)
    \/ \E i \in ReadIntervals : get_existing_days_in_range_call("A", i[1], i[2])
    \/ \E ymd \in PairDays : get_photos_call("A", ymd)

ReadSpec == Init /\ [][ReadNext]_vars

\* ------------------------------------- add_photos_to_day, step by step

\* let write_txn = self.db.begin_write()?: the transaction works on its own
\* copy of the tables; a second begin_write waits until the first is over
begin_write(n, ymd, new_photos) ==
    /\ adds[n] < MaxAdds
    /\ write_txn[n] = NoTxn
    /\ adds' = [adds EXCEPT ![n] = @ + 1]
    /\ write_txn' = [write_txn EXCEPT ![n] =
                         [pc |-> "data", ymd |-> ymd, new_photos |-> new_photos,
                          st |-> Storage(n), result |-> <<>>]]
    /\ UNCHANGED <<DATA, CHK_YMD, CHK_YM, CHK_Y, last, peers, sync_mutex, thread,
                   local, remote, diff, answer>>

\* write_txn of node n is at step pc
txn_at(n, pc) == write_txn[n].pc = pc

\* write_txn of node n goes on to step pc with the tables st
txn_step(n, pc, st) ==
    /\ write_txn' = [write_txn EXCEPT ![n] = [@ EXCEPT !.pc = pc, !.st = st]]
    /\ UNCHANGED <<DATA, CHK_YMD, CHK_YM, CHK_Y, last, adds, peers, sync_mutex, thread,
                   local, remote, diff, answer>>

\* open_table(TBL_DATA), get, the merge loop, sort, insert, calc_photos_checksum
txn_data(n) ==
    /\ txn_at(n, "data")
    /\ LET w == write_txn[n]
           stored == IF w.ymd \in DOMAIN w.st.DATA THEN w.st.DATA[w.ymd] ELSE <<>>
           photos == sort(merge_photos(stored, w.new_photos))
       IN  /\ write_txn' = [write_txn EXCEPT ![n] =
                                [w EXCEPT !.pc = "day",
                                          !.st = [w.st EXCEPT !.DATA = insert(@, w.ymd, photos)],
                                          !.result = calc_photos_checksum(photos)]]
           /\ UNCHANGED <<DATA, CHK_YMD, CHK_YM, CHK_Y, last, adds, peers, sync_mutex, thread,
                          local, remote, diff, answer>>

\* update_day_checksum: open_table(TBL_CHECKSUM_DAY), insert(ymd, day_checksum)
txn_day(n) ==
    /\ txn_at(n, "day")
    /\ LET w == write_txn[n]
       IN  txn_step(n, "month", [w.st EXCEPT !.CHK_YMD = insert(@, w.ymd, w.result)])

\* update_day_checksum: the month's days hashed, insert(ym, ..)
txn_month(n) ==
    /\ txn_at(n, "month")
    /\ LET w == write_txn[n]
           ym == ymd_to_ym(w.ymd)
           r_ym == ymd_range_for_ym(ym)
       IN  txn_step(n, "year",
                    [w.st EXCEPT !.CHK_YM =
                        insert(@, ym, Sha256(digests_of(range(w.st.CHK_YMD, r_ym[1], r_ym[2]))))])

\* update_day_checksum: the year's months hashed, insert(y, ..)
txn_year(n) ==
    /\ txn_at(n, "year")
    /\ LET w == write_txn[n]
           y == ym_to_y(ymd_to_ym(w.ymd))
           r_y == ym_range_for_y(y)
       IN  txn_step(n, "commit",
                    [w.st EXCEPT !.CHK_Y =
                        insert(@, y, Sha256(digests_of(range(w.st.CHK_YM, r_y[1], r_y[2]))))])

\* write_txn.commit()?; Ok(result): the tables of the transaction become the
\* tables of the storage
txn_commit(n) ==
    /\ txn_at(n, "commit")
    /\ LET w == write_txn[n]
       IN  /\ DATA' = [DATA EXCEPT ![n] = w.st.DATA]
           /\ CHK_YMD' = [CHK_YMD EXCEPT ![n] = w.st.CHK_YMD]
           /\ CHK_YM' = [CHK_YM EXCEPT ![n] = w.st.CHK_YM]
           /\ CHK_Y' = [CHK_Y EXCEPT ![n] = w.st.CHK_Y]
           /\ last' = [last EXCEPT ![n] =
                          [ymd |-> w.ymd, new_photos |-> w.new_photos, result |-> w.result,
                           repeated |-> (last[n].ymd = w.ymd
                                         /\ last[n].new_photos = w.new_photos)]]
    /\ write_txn' = [write_txn EXCEPT ![n] = NoTxn]
    /\ UNCHANGED <<adds, peers, sync_mutex, thread, local, remote, diff, answer>>

\* an engine error that leaves what the transaction has written so far in the tables
txn_fail_keeps_writes(n) ==
    /\ write_txn[n] # NoTxn
    /\ DATA' = [DATA EXCEPT ![n] = write_txn[n].st.DATA]
    /\ CHK_YMD' = [CHK_YMD EXCEPT ![n] = write_txn[n].st.CHK_YMD]
    /\ CHK_YM' = [CHK_YM EXCEPT ![n] = write_txn[n].st.CHK_YM]
    /\ CHK_Y' = [CHK_Y EXCEPT ![n] = write_txn[n].st.CHK_Y]
    /\ write_txn' = [write_txn EXCEPT ![n] = NoTxn]
    /\ UNCHANGED <<last, adds, peers, sync_mutex, thread, local, remote, diff, answer>>

\* an engine error at any `?` of add_photos_to_day or update_day_checksum, or in
\* commit: Err is returned, write_txn is dropped and with it all it has written
txn_fail(n) ==
    /\ write_txn[n] # NoTxn
    /\ write_txn' = [write_txn EXCEPT ![n] = NoTxn]
    /\ UNCHANGED <<DATA, CHK_YMD, CHK_YM, CHK_Y, last, adds, peers, sync_mutex, thread,
                   local, remote, diff, answer>>

\* one storage: add_photos_to_day step by step, engine errors, and reads in between
TxnNext ==
    \/ \E ymd \in PairDays, e \in PairLists : begin_write("A", ymd, e)
    \/ txn_data("A")
    \/ txn_day("A")
    \/ txn_month("A")
    \/ txn_year("A")
    \/ txn_commit("A")
    \/ txn_fail("A")
    \/ get_years_checksums_call("A")
    \/ \E y \in ReadYears : get_months_checksum_call("A", y)
    \/ \E ym \in ReadMonths : get_days_checksum_call("A", ym)
    \/ \E ymd \in PairDays : get_photos_call("A", ymd)

TxnSpec == Init /\ [][TxnNext]_vars

\* --------------------------------------------------------- CatalogNode

\* what another operation leaves of a thread's record: a thread that has returned
\* is forgotten, a thread inside sync_with_peers is no longer undisturbed
observed(r) == IF r.pc = "idle" THEN IdleThread ELSE [r EXCEPT !.undisturbed = FALSE]

\* thread t moves to record r; every other thread sees an operation happen
step(t, r) == thread' = [u \in Threads |-> IF u = t THEN r ELSE observed(thread[u])]

\* an operation of no thread of the model happens
outside == thread' = [u \in Threads |-> observed(thread[u])]

\* a call of a RemotePeer method, as recorded in thread.calls
call(method, on, arg) == [method |-> method, on |-> on, arg |-> arg]

\* a pending piece of sync_with_peers: op names the next call, src and dst the
\* two sides, key the year, month or day, pay what was fetched for it
task(op, src, dst, key, pay) == [op |-> op, src |-> src, dst |-> dst, key |-> key, pay |-> pay]

\* RemotePeer::propose(ymd, data) on node n, called from outside
propose(n, ymd, data) ==
    /\ adds["A"] + adds["B"] < MaxProposals
    /\ adds' = [adds EXCEPT ![n] = @ + 1]
    /\ commit(n, ymd, data)
    /\ outside
    /\ UNCHANGED <<peers, sync_mutex, local, remote, diff, write_txn, answer>>

\* add_peer that cannot take the roster lock while sync_with_peers runs on the node
add_peer_waits(n, peer, cap) ==
    /\ \A t \in Threads : ~(thread[t].pc = "running" /\ thread[t].node = n)
    /\ Len(peers[n]) < cap
    /\ peers' = [peers EXCEPT ![n] = Append(@, peer)]
    /\ outside
    /\ UNCHANGED <<DATA, CHK_YMD, CHK_YM, CHK_Y, last, adds, sync_mutex,
                   local, remote, diff, write_txn, answer>>

\* CatalogNode::add_peer(peer) on node n, whose roster is shorter than cap: the
\* roster lock is free whenever no sync_with_peers is in the step that copies it
add_peer_within(n, peer, cap) ==
    /\ Len(peers[n]) < cap
    /\ peers' = [peers EXCEPT ![n] = Append(@, peer)]
    /\ outside
    /\ UNCHANGED <<DATA, CHK_YMD, CHK_YM, CHK_Y, last, adds, sync_mutex,
                   local, remote, diff, write_txn, answer>>

\* CatalogNode::add_peer(peer) on node n
add_peer(n, peer) == add_peer_within(n, peer, MaxPeers)

\* sync_with_peers that does not look at what try_lock returned
sync_with_peers_unlocked(t, n) ==
    /\ thread[t].pc = "idle"
    /\ sync_mutex' = [sync_mutex EXCEPT ![n] = TRUE]
    /\ step(t, [pc |-> "running", node |-> n, peers |-> peers[n], todo |-> <<>>,
                result |-> "none", calls |-> <<>>, compared |-> <<>>, roster |-> peers[n],
                undisturbed |-> TRUE])
    /\ UNCHANGED <<DATA, CHK_YMD, CHK_YM, CHK_Y, last, adds, peers,
                   local, remote, diff, write_txn, answer>>

\* CatalogNode::sync_with_peers on node n, called by thread t: try_lock, and
\* either the SyncInProcess return or the copy of the roster
sync_with_peers(t, n) ==
    /\ thread[t].pc = "idle"
    /\ IF sync_mutex[n]
       THEN /\ step(t, [IdleThread EXCEPT !.node = n, !.result = "SyncInProcess"])
            /\ UNCHANGED sync_mutex
       ELSE /\ sync_mutex' = [sync_mutex EXCEPT ![n] = TRUE]
            /\ step(t, [pc |-> "running", node |-> n, peers |-> peers[n], todo |-> <<>>,
                        result |-> "none", calls |-> <<>>, compared |-> <<>>, roster |-> peers[n],
                        undisturbed |-> TRUE])
    /\ UNCHANGED <<DATA, CHK_YMD, CHK_YM, CHK_Y, last, adds, peers,
                   local, remote, diff, write_txn, answer>>

\* thread t is inside sync_with_peers and its next piece is op
at(t, op) ==
    /\ thread[t].pc = "running"
    /\ thread[t].todo # <<>>
    /\ Head(thread[t].todo).op = op

\* thread t replaces its first piece by the pieces ts, having made call c
advance(t, ts, c) ==
    step(t, [thread[t] EXCEPT !.todo = ts \o Tail(@), !.calls = Append(@, c)])

\* as advance, after calc_diff(loc, rem): the two lists are noted in compared
compare(t, ts, c, loc, rem) ==
    step(t, [thread[t] EXCEPT !.todo = ts \o Tail(@), !.calls = Append(@, c),
                              !.compared = Append(@, <<loc, rem>>)])

\* a read made by sync_with_peers changes nothing but the thread
reads == UNCHANGED <<DATA, CHK_YMD, CHK_YM, CHK_Y, last, adds, peers, sync_mutex,
                     local, remote, diff, write_txn, answer>>

\* the fill_gaps calls of one tier: src -> dst for every date of dates
fill_tasks(op, src, dst, dates) ==
    [i \in 1..Len(dates) |-> task(op, src, dst, dates[i], <<>>)]

\* for peer in peers: the next peer, and self.get_years_checksums()
sync_years(t) ==
    /\ thread[t].pc = "running"
    /\ thread[t].todo = <<>>
    /\ thread[t].peers # <<>>
    /\ LET n == thread[t].node
           peer == Head(thread[t].peers)
       IN  step(t, [thread[t] EXCEPT
                       !.peers = Tail(@),
                       !.compared = <<>>,
                       !.todo = <<task("years", peer, n, 0, get_years_checksums(Storage(n)))>>,
                       !.calls = Append(@, call("get_years_checksums", n, 0))])
    /\ reads

\* sync_years_diff that goes on to the months of every year both sides list
sync_years_diff_unpruned(t) ==
    /\ at(t, "years")
    /\ LET h == Head(thread[t].todo)
           rem == get_years_checksums(Storage(h.src))
           d == calc_diff(h.pay, rem)
           both == SelectSeq([i \in 1..Len(h.pay) |-> h.pay[i][1]],
                             LAMBDA k : \E j \in 1..Len(rem) : rem[j][1] = k)
       IN  compare(t, fill_tasks("fill_y", h.src, h.dst, d[1])
                          \o fill_tasks("fill_y", h.dst, h.src, d[2])
                          \o fill_tasks("months", h.src, h.dst, both),
                   call("get_years_checksums", h.src, 0), h.pay, rem)
    /\ reads

\* peer.get_years_checksums(), calc_diff, and what the year tier leaves to do
sync_years_diff(t) ==
    /\ at(t, "years")
    /\ LET h == Head(thread[t].todo)
           d == calc_diff(h.pay, get_years_checksums(Storage(h.src)))
       IN  compare(t, fill_tasks("fill_y", h.src, h.dst, d[1])
                          \o fill_tasks("fill_y", h.dst, h.src, d[2])
                          \o fill_tasks("months", h.src, h.dst, d[3]),
                   call("get_years_checksums", h.src, 0),
                   h.pay, get_years_checksums(Storage(h.src)))
    /\ reads

\* for y in diff_y: self.get_months_checksum(y)
sync_months(t) ==
    /\ at(t, "months")
    /\ LET h == Head(thread[t].todo)
       IN  advance(t, <<task("months_diff", h.src, h.dst, h.key,
                             get_months_checksum(Storage(h.dst), h.key))>>,
                   call("get_months_checksum", h.dst, h.key))
    /\ reads

\* peer.get_months_checksum(y), calc_diff, and what the month tier leaves to do
sync_months_diff(t) ==
    /\ at(t, "months_diff")
    /\ LET h == Head(thread[t].todo)
           d == calc_diff(h.pay, get_months_checksum(Storage(h.src), h.key))
       IN  compare(t, fill_tasks("fill_ym", h.src, h.dst, d[1])
                          \o fill_tasks("fill_ym", h.dst, h.src, d[2])
                          \o fill_tasks("days", h.src, h.dst, d[3]),
                   call("get_months_checksum", h.src, h.key),
                   h.pay, get_months_checksum(Storage(h.src), h.key))
    /\ reads

\* for ym in diff_ym: self.get_days_checksum(ym)
sync_days(t) ==
    /\ at(t, "days")
    /\ LET h == Head(thread[t].todo)
       IN  advance(t, <<task("days_diff", h.src, h.dst, h.key,
                             get_days_checksum(Storage(h.dst), h.key))>>,
                   call("get_days_checksum", h.dst, h.key))
    /\ reads

\* sync_days_diff that sends the differing days from the peer to the node only
sync_days_diff_one_way(t) ==
    /\ at(t, "days_diff")
    /\ LET h == Head(thread[t].todo)
           d == calc_diff(h.pay, get_days_checksum(Storage(h.src), h.key))
       IN  compare(t, fill_tasks("get_data", h.src, h.dst, d[1] \o d[3])
                          \o fill_tasks("get_data", h.dst, h.src, d[2]),
                   call("get_days_checksum", h.src, h.key),
                   h.pay, get_days_checksum(Storage(h.src), h.key))
    /\ reads

\* sync_days_diff with the differing days put before the missing ones
sync_days_diff_differing_first(t) ==
    /\ at(t, "days_diff")
    /\ LET h == Head(thread[t].todo)
           d == calc_diff(h.pay, get_days_checksum(Storage(h.src), h.key))
       IN  compare(t, fill_tasks("get_data", h.src, h.dst, d[3] \o d[1])
                          \o fill_tasks("get_data", h.dst, h.src, d[3] \o d[2]),
                   call("get_days_checksum", h.src, h.key),
                   h.pay, get_days_checksum(Storage(h.src), h.key))
    /\ reads

\* peer.get_days_checksum(ym), calc_diff, and the two fill_ymd_gaps calls
sync_days_diff(t) ==
    /\ at(t, "days_diff")
    /\ LET h == Head(thread[t].todo)
           d == calc_diff(h.pay, get_days_checksum(Storage(h.src), h.key))
       IN  compare(t, fill_tasks("get_data", h.src, h.dst, d[1] \o d[3])
                          \o fill_tasks("get_data", h.dst, h.src, d[2] \o d[3]),
                   call("get_days_checksum", h.src, h.key),
                   h.pay, get_days_checksum(Storage(h.src), h.key))
    /\ reads

\* fill_gaps, for d in dates: src.get_existing_days_in_range(start, end)
fill_gaps(t) ==
    /\ at(t, "fill_y") \/ at(t, "fill_ym")
    /\ LET h == Head(thread[t].todo)
           interval == IF h.op = "fill_y" THEN ymd_interval_for_y(h.key)
                       ELSE ymd_interval_for_ym(h.key)
           days == get_existing_days_in_range(Storage(h.src), interval[1], interval[2])
       IN  advance(t, fill_tasks("get_data", h.src, h.dst, days),
                   call("get_existing_days_in_range", h.src, interval[1]))
    /\ reads

\* fill_gaps and fill_ymd_gaps, for ymd: src.get_data(ymd)
fill_get_data(t) ==
    /\ at(t, "get_data")
    /\ LET h == Head(thread[t].todo)
           photos == get_photos(Storage(h.src), h.key)
       IN  advance(t, IF photos = <<>> THEN <<>>
                      ELSE <<task("propose", h.src, h.dst, h.key, photos[1])>>,
                   call("get_data", h.src, h.key))
    /\ reads

\* propose that is served only while the node proposed to is not in its own
\* sync_with_peers
propose_ready_locks(t) ==
    /\ at(t, "propose")
    /\ ~sync_mutex[Head(thread[t].todo).dst]

\* thread t is about to call dst.propose, and dst serves it: RemotePeer::propose
\* goes to storage.add_photos_to_day and takes no lock of the node
propose_ready(t) == at(t, "propose")

\* fill_gaps and fill_ymd_gaps, if let Some(photos): dst.propose(ymd, &photos)
fill_propose(t) ==
    /\ propose_ready(t)
    /\ LET h == Head(thread[t].todo)
       IN  /\ commit(h.dst, h.key, h.pay)
           /\ advance(t, <<>>, call("propose", h.dst, h.key))
    /\ UNCHANGED <<adds, peers, sync_mutex, local, remote, diff, write_txn, answer>>

\* every peer is done: Ok(()), and _guard is dropped
sync_return(t) ==
    /\ thread[t].pc = "running"
    /\ thread[t].todo = <<>>
    /\ thread[t].peers = <<>>
    /\ sync_mutex' = [sync_mutex EXCEPT ![thread[t].node] = FALSE]
    /\ step(t, [thread[t] EXCEPT !.pc = "idle", !.result = "Ok"])
    /\ UNCHANGED <<DATA, CHK_YMD, CHK_YM, CHK_Y, last, adds, peers,
                   local, remote, diff, write_txn, answer>>

\* no thread is inside sync_with_peers
quiescent == \A t \in Threads : thread[t].pc = "idle"

\* propose from outside while no sync_with_peers is running
quiet_propose(n, ymd, data) == quiescent /\ propose(n, ymd, data)

\* add_peer while no sync_with_peers is running
quiet_add_peer(n, peer) == quiescent /\ add_peer(n, peer)

\* sync_with_peers called while none is running, or on a node whose sync_mutex is held
sync_with_peers_call(t, n) == (quiescent \/ sync_mutex[n]) /\ sync_with_peers(t, n)

\* Operations one after another, and sync_with_peers called again on a node
\* whose sync_mutex is held.
Next ==
    \/ \E n \in Nodes, ymd \in ProposeDays, e \in ProposeLists : quiet_propose(n, ymd, e)
    \/ \E n \in Nodes : \E p \in Nodes \ {n} : quiet_add_peer(n, p)
    \/ \E t \in Threads, n \in Nodes : sync_with_peers_call(t, n)
    \/ \E t \in Threads : sync_years(t)
    \/ \E t \in Threads : sync_years_diff(t)
    \/ \E t \in Threads : sync_months(t)
    \/ \E t \in Threads : sync_months_diff(t)
    \/ \E t \in Threads : sync_days(t)
    \/ \E t \in Threads : sync_days_diff(t)
    \/ \E t \in Threads : fill_gaps(t)
    \/ \E t \in Threads : fill_get_data(t)
    \/ \E t \in Threads : fill_propose(t)
    \/ \E t \in Threads : sync_return(t)

Spec == Init /\ [][Next]_vars

\* the RemotePeer call thread t makes next returns Err, and the error is kept
\* for later: the rest of this peer is left out and the loop goes on
sync_fail_next_peer(t) ==
    /\ thread[t].pc = "running"
    /\ thread[t].todo # <<>> \/ thread[t].peers # <<>>
    /\ step(t, [thread[t] EXCEPT !.todo = <<>>, !.result = "PeerError"])
    /\ reads

\* sync_fail that returns the error without dropping _guard
sync_fail_keeps_lock(t) ==
    /\ thread[t].pc = "running"
    /\ thread[t].todo # <<>> \/ thread[t].peers # <<>>
    /\ step(t, [thread[t] EXCEPT !.pc = "idle", !.result = "PeerError"])
    /\ reads

\* the RemotePeer call thread t makes next returns Err: `?` returns it from
\* sync_with_peers and _guard is dropped; todo and peers keep what was left to do
sync_fail(t) ==
    /\ thread[t].pc = "running"
    /\ thread[t].todo # <<>> \/ thread[t].peers # <<>>
    /\ sync_mutex' = [sync_mutex EXCEPT ![thread[t].node] = FALSE]
    /\ step(t, [thread[t] EXCEPT !.pc = "idle", !.result = "PeerError"])
    /\ UNCHANGED <<DATA, CHK_YMD, CHK_YM, CHK_Y, last, adds, peers,
                   local, remote, diff, write_txn, answer>>

\* ------------------------------------------------------------ OrderSpec

\* as Init, after B.propose(20210102, [(o0, [p0])]) has committed
OrderInit ==
    LET b == add_txn(EmptyStorage, 20210102, << <<o0, <<p0>>>> >>)
    IN  /\ DATA = [n \in Nodes |-> IF n = "B" THEN b.st.DATA ELSE EmptyTable]
        /\ CHK_YMD = [n \in Nodes |-> IF n = "B" THEN b.st.CHK_YMD ELSE EmptyTable]
        /\ CHK_YM = [n \in Nodes |-> IF n = "B" THEN b.st.CHK_YM ELSE EmptyTable]
        /\ CHK_Y = [n \in Nodes |-> IF n = "B" THEN b.st.CHK_Y ELSE EmptyTable]
        /\ last = [n \in Nodes |->
                      IF n = "B"
                      THEN [ymd |-> 20210102, new_photos |-> << <<o0, <<p0>>>> >>,
                            result |-> b.result, repeated |-> FALSE]
                      ELSE NoCall]
        /\ adds = [n \in Nodes |-> 0]
        /\ peers = [n \in Nodes |-> <<>>]
        /\ sync_mutex = [n \in Nodes |-> FALSE]
        /\ thread = [t \in Threads |-> IdleThread]
        /\ local = <<>>
        /\ remote = <<>>
        /\ diff = <<>>
        /\ write_txn = [n \in Nodes |-> NoTxn]
        /\ answer = NoAnswer

\* the operations of Spec on a catalog where B holds a day already
OrderSpec == OrderInit /\ [][Next]_vars

\* --------------------------------------------------------- ExchangeSpec

\* as Init, after B.propose(20210101, [(o0, [p1])]) has committed
ExchangeInit ==
    LET b == add_txn(EmptyStorage, 20210101, << <<o0, <<p1>>>> >>)
    IN  /\ DATA = [n \in Nodes |-> IF n = "B" THEN b.st.DATA ELSE EmptyTable]
        /\ CHK_YMD = [n \in Nodes |-> IF n = "B" THEN b.st.CHK_YMD ELSE EmptyTable]
        /\ CHK_YM = [n \in Nodes |-> IF n = "B" THEN b.st.CHK_YM ELSE EmptyTable]
        /\ CHK_Y = [n \in Nodes |-> IF n = "B" THEN b.st.CHK_Y ELSE EmptyTable]
        /\ last = [n \in Nodes |->
                      IF n = "B"
                      THEN [ymd |-> 20210101, new_photos |-> << <<o0, <<p1>>>> >>,
                            result |-> b.result, repeated |-> FALSE]
                      ELSE NoCall]
        /\ adds = [n \in Nodes |-> 0]
        /\ peers = [n \in Nodes |-> <<>>]
        /\ sync_mutex = [n \in Nodes |-> FALSE]
        /\ thread = [t \in Threads |-> IdleThread]
        /\ local = <<>>
        /\ remote = <<>>
        /\ diff = <<>>
        /\ write_txn = [n \in Nodes |-> NoTxn]
        /\ answer = NoAnswer

\* the operations of Spec on a catalog where B holds ObjectId o0 with label p1
ExchangeSpec == ExchangeInit /\ [][Next]_vars

\* ------------------------------------------------------------- GrowSpec

\* propose is called from outside at any time, also while sync_with_peers runs
GrowNext ==
    \/ \E n \in Nodes, ymd \in RosterDays, e \in ProposeLists : propose(n, ymd, e)
    \/ \E n \in Nodes : \E p \in Nodes \ {n} : quiet_add_peer(n, p)
    \/ \E t \in Threads, n \in Nodes : sync_with_peers_call(t, n)
    \/ \E t \in Threads : sync_years(t)
    \/ \E t \in Threads : sync_years_diff(t)
    \/ \E t \in Threads : sync_months(t)
    \/ \E t \in Threads : sync_months_diff(t)
    \/ \E t \in Threads : sync_days(t)
    \/ \E t \in Threads : sync_days_diff(t)
    \/ \E t \in Threads : fill_gaps(t)
    \/ \E t \in Threads : fill_get_data(t)
    \/ \E t \in Threads : fill_propose(t)
    \/ \E t \in Threads : sync_return(t)

GrowSpec == ExchangeInit /\ [][GrowNext]_vars

\* ----------------------------------------------------------- MutualSpec

\* as ExchangeInit, after A.add_peer(B) and B.add_peer(A)
MutualInit ==
    LET b == add_txn(EmptyStorage, 20210101, << <<o0, <<p1>>>> >>)
    IN  /\ DATA = [n \in Nodes |-> IF n = "B" THEN b.st.DATA ELSE EmptyTable]
        /\ CHK_YMD = [n \in Nodes |-> IF n = "B" THEN b.st.CHK_YMD ELSE EmptyTable]
        /\ CHK_YM = [n \in Nodes |-> IF n = "B" THEN b.st.CHK_YM ELSE EmptyTable]
        /\ CHK_Y = [n \in Nodes |-> IF n = "B" THEN b.st.CHK_Y ELSE EmptyTable]
        /\ last = [n \in Nodes |->
                      IF n = "B"
                      THEN [ymd |-> 20210101, new_photos |-> << <<o0, <<p1>>>> >>,
                            result |-> b.result, repeated |-> FALSE]
                      ELSE NoCall]
        /\ adds = [n \in Nodes |-> 0]
        /\ peers = [n \in Nodes |-> IF n = "A" THEN <<"B">> ELSE <<"A">>]
        /\ sync_mutex = [n \in Nodes |-> FALSE]
        /\ thread = [t \in Threads |-> IdleThread]
        /\ local = <<>>
        /\ remote = <<>>
        /\ diff = <<>>
        /\ write_txn = [n \in Nodes |-> NoTxn]
        /\ answer = NoAnswer

\* thread t1 calls A.sync_with_peers() and thread t2 calls B.sync_with_peers(),
\* at any time, and the steps of the two interleave
MutualNext ==
    \/ \E n \in Nodes, ymd \in RosterDays, e \in ProposeLists : quiet_propose(n, ymd, e)
    \/ sync_with_peers("t1", "A")
    \/ sync_with_peers("t2", "B")
    \/ \E t \in Threads : sync_years(t)
    \/ \E t \in Threads : sync_years_diff(t)
    \/ \E t \in Threads : sync_months(t)
    \/ \E t \in Threads : sync_months_diff(t)
    \/ \E t \in Threads : sync_days(t)
    \/ \E t \in Threads : sync_days_diff(t)
    \/ \E t \in Threads : fill_gaps(t)
    \/ \E t \in Threads : fill_get_data(t)
    \/ \E t \in Threads : fill_propose(t)
    \/ \E t \in Threads : sync_return(t)

\* the tier queries, the get_existing_days_in_range and get_data calls left to
\* thread t inside sync_with_peers, and its return
sync_queries(t) ==
    \/ sync_years(t) \/ sync_years_diff(t) \/ sync_months(t) \/ sync_months_diff(t)
    \/ sync_days(t) \/ sync_days_diff(t) \/ fill_gaps(t) \/ fill_get_data(t)
    \/ sync_return(t)

\* what a fill_propose step of thread t does to the threads
propose_made(t) ==
    /\ propose_ready(t)
    /\ advance(t, <<>>, call("propose", Head(thread[t].todo).dst, Head(thread[t].todo).key))

MutualSpec == MutualInit /\ [][MutualNext]_vars

\* a thread inside sync_with_peers is scheduled again and again: the call it is
\* about to make is made
MutualLiveSpec ==
    MutualSpec /\ \A t \in Threads : WF_vars(sync_queries(t)) /\ WF_thread(propose_made(t))

\* ----------------------------------------------------------- RosterSpec

\* the state after CatalogNode::test_new of A, B and C
RosterInit ==
    /\ DATA = [n \in RosterNodes |-> EmptyTable]
    /\ CHK_YMD = [n \in RosterNodes |-> EmptyTable]
    /\ CHK_YM = [n \in RosterNodes |-> EmptyTable]
    /\ CHK_Y = [n \in RosterNodes |-> EmptyTable]
    /\ last = [n \in RosterNodes |-> NoCall]
    /\ adds = [n \in RosterNodes |-> 0]
    /\ peers = [n \in RosterNodes |-> <<>>]
    /\ sync_mutex = [n \in RosterNodes |-> FALSE]
    /\ thread = [t \in Threads |-> IdleThread]
    /\ local = <<>>
    /\ remote = <<>>
    /\ diff = <<>>
    /\ write_txn = [n \in RosterNodes |-> NoTxn]
    /\ answer = NoAnswer

\* A.add_peer(peer) with a peer not yet in the roster, at any time
late_add_peer(peer) ==
    /\ \A i \in 1..Len(peers["A"]) : peers["A"][i] # peer
    /\ add_peer_within("A", peer, MaxRoster)

\* A's roster grows at any time, also while A.sync_with_peers() runs; the
\* RemotePeer calls of the sync can fail
RosterNext ==
    \/ \E n \in Nodes, ymd \in RosterDays, e \in RosterLists : quiet_propose(n, ymd, e)
    \/ \E p \in RosterNodes \ {"A"} : late_add_peer(p)
    \/ \E t \in Threads : sync_with_peers_call(t, "A")
    \/ \E t \in Threads : sync_years(t)
    \/ \E t \in Threads : sync_years_diff(t)
    \/ \E t \in Threads : sync_months(t)
    \/ \E t \in Threads : sync_months_diff(t)
    \/ \E t \in Threads : sync_days(t)
    \/ \E t \in Threads : sync_days_diff(t)
    \/ \E t \in Threads : fill_gaps(t)
    \/ \E t \in Threads : fill_get_data(t)
    \/ \E t \in Threads : fill_propose(t)
    \/ \E t \in Threads : sync_fail(t)
    \/ \E t \in Threads : sync_return(t)

RosterSpec == RosterInit /\ [][RosterNext]_vars

\* ------------------------------------------------------------ DiffSpec

KeySets == {S \in SUBSET (1..MaxKeys) : TRUE}
Checksums == {Sha256(<<0>>), Sha256(<<1>>)}

\* the lists of (key, checksum) sorted strictly ascending by key
SortedLists ==
    UNION {{[i \in 1..Len(Ascending(S)) |-> <<Ascending(S)[i], c[Ascending(S)[i]]>>] :
                c \in [S -> Checksums]} : S \in KeySets}

DiffInit ==
    /\ DATA = [n \in Nodes |-> EmptyTable]
    /\ CHK_YMD = [n \in Nodes |-> EmptyTable]
    /\ CHK_YM = [n \in Nodes |-> EmptyTable]
    /\ CHK_Y = [n \in Nodes |-> EmptyTable]
    /\ last = [n \in Nodes |-> NoCall]
    /\ adds = [n \in Nodes |-> 0]
    /\ peers = [n \in Nodes |-> <<>>]
    /\ sync_mutex = [n \in Nodes |-> FALSE]
    /\ thread = [t \in Threads |-> IdleThread]
    /\ local \in SortedLists
    /\ remote \in SortedLists
    /\ diff = <<>>
    /\ write_txn = [n \in Nodes |-> NoTxn]
    /\ answer = NoAnswer

\* calc_diff(local, remote) is called
calc_diff_call ==
    /\ diff = <<>>
    /\ diff' = calc_diff(local, remote)
    /\ UNCHANGED <<DATA, CHK_YMD, CHK_YM, CHK_Y, last, adds, peers, sync_mutex, thread,
                   local, remote, write_txn, answer>>

DiffSpec == DiffInit /\ [][calc_diff_call]_vars

\* ================================================================ claims

\* the ObjectIds stored for a day
oids_of(photos) == {photos[i][1] : i \in 1..Len(photos)}

\* the peer labels stored with ObjectId o
peers_of(photos, o) ==
    UNION {{photos[i][2][k] : k \in 1..Len(photos[i][2])} :
               i \in {j \in 1..Len(photos) : photos[j][1] = o}}

\* the rows of a day, none when the day has no row
photos_at(st, ymd) == IF ymd \in DOMAIN st.DATA THEN st.DATA[ymd] ELSE <<>>

\* row k is the same in both tables: absent in both, or present with one value
SameRow(t1, t2, k) ==
    /\ (k \in DOMAIN t1) = (k \in DOMAIN t2)
    /\ k \in DOMAIN t1 /\ k \in DOMAIN t2 => t1[k] = t2[k]

SameTable(t1, t2) == \A k \in (DOMAIN t1) \cup (DOMAIN t2) : SameRow(t1, t2, k)

\* thread t has returned Ok from sync_with_peers on node a whose roster was the
\* one peer b, and from the call to now nothing else has happened
Synced(t, a, b) ==
    /\ thread[t].pc = "idle"
    /\ thread[t].result = "Ok"
    /\ thread[t].undisturbed
    /\ thread[t].node = a
    /\ peers[a] = <<b>>
    /\ a # b

\* ---------------------------------------------------------------- C1

\* C1: after A.sync_with_peers() has returned Ok with B the only peer of A's
\* roster and nothing else running, A.get_data(ymd) and B.get_data(ymd) are equal
\* for every day: both absent, or the same list of ObjectIds with the same peer
\* set for each ObjectId.
C1_SyncConverges ==
    \A t \in Threads, a \in Nodes, b \in Nodes :
        Synced(t, a, b) =>
            \A ymd \in (DOMAIN DATA[a]) \cup (DOMAIN DATA[b]) \cup ProposeDays :
                LET l == get_photos(Storage(a), ymd)
                    r == get_photos(Storage(b), ymd)
                IN  /\ Len(l) = Len(r)
                    /\ l # <<>> /\ r # <<>> =>
                           /\ [i \in 1..Len(l[1]) |-> l[1][i][1]]
                                  = [i \in 1..Len(r[1]) |-> r[1][i][1]]
                           /\ \A o \in oids_of(l[1]) : peers_of(l[1], o) = peers_of(r[1], o)

\* ---------------------------------------------------------------- C2

\* C2: after A.sync_with_peers() has returned Ok with B the only peer of A's
\* roster and nothing else running, get_years_checksums() is the same list on A
\* and B, and so are get_months_checksum(y) for every year and
\* get_days_checksum(ym) for every month.
C2_DigestsCoincide ==
    \A t \in Threads, a \in Nodes, b \in Nodes :
        Synced(t, a, b) =>
            /\ get_years_checksums(Storage(a)) = get_years_checksums(Storage(b))
            /\ \A y \in (DOMAIN CHK_Y[a]) \cup (DOMAIN CHK_Y[b]) :
                   get_months_checksum(Storage(a), y) = get_months_checksum(Storage(b), y)
            /\ \A ym \in (DOMAIN CHK_YM[a]) \cup (DOMAIN CHK_YM[b]) :
                   get_days_checksum(Storage(a), ym) = get_days_checksum(Storage(b), ym)

\* ---------------------------------------------------------------- C3

\* C3: add_photos_to_day is idempotent: in every reachable storage state, for
\* every day and every entry list, a second add_photos_to_day(ymd, E) right after
\* the first leaves DATA, CHK_YMD, CHK_YM and CHK_Y as the first call left them
\* and returns the digest the first call returned.
C3_Idempotent ==
    \A ymd \in StorageDays, e \in EntryLists :
        LET first == add_txn(Storage("A"), ymd, e)
            second == add_txn(first.st, ymd, e)
        IN  /\ second.st = first.st
            /\ second.result = first.result

\* a two-entry list was added twice in a row to a day that held other rows
C3_Witness ==
    /\ last["A"].repeated
    /\ Len(last["A"].new_photos) = 2
    /\ adds["A"] >= 2
    /\ Len(DATA["A"][last["A"].ymd]) = 2
    /\ CHK_YMD["A"][last["A"].ymd] = last["A"].result

\* ---------------------------------------------------------------- C4

\* C4: adding an ObjectId o to a day with label pa and then with another label
\* pb merges: the day holds exactly one row for o, its peer set is the labels
\* stored for o before (none when o was new) together with pa and pb, and the
\* day, month and year digests after the second call are those after the first.
C4_MergePeers ==
    \A ymd \in StorageDays, o \in Oids, pa \in PeerLabels, pb \in PeerLabels :
        pa # pb =>
            LET before == Storage("A")
                first == add_txn(before, ymd, << <<o, <<pa>>>> >>)
                second == add_txn(first.st, ymd, << <<o, <<pb>>>> >>)
                photos == second.st.DATA[ymd]
            IN  /\ Cardinality({i \in 1..Len(photos) : photos[i][1] = o}) = 1
                /\ peers_of(photos, o) = peers_of(photos_at(before, ymd), o) \cup {pa, pb}
                /\ second.st.CHK_YMD = first.st.CHK_YMD
                /\ second.st.CHK_YM = first.st.CHK_YM
                /\ second.st.CHK_Y = first.st.CHK_Y
                /\ second.result = first.result

\* o0 was added with label p0 and then with label p1: one row, both labels
C4_Witness ==
    /\ adds["A"] = 2
    /\ last["A"].new_photos = << <<o0, <<p1>>>> >>
    /\ last["A"].ymd = 20210101
    /\ DATA["A"] = (20210101 :> << <<o0, <<p0, p1>>>> >>)
    /\ CHK_YMD["A"][20210101] = Sha256(o0)

\* ---------------------------------------------------------------- C5

\* both storages hold the same days, and for every day the same ObjectIds
SameObjects(a, b) ==
    /\ DOMAIN DATA[a] = DOMAIN DATA[b]
    /\ \A ymd \in DOMAIN DATA[a] : oids_of(DATA[a][ymd]) = oids_of(DATA[b][ymd])

\* C5: the digests depend only on the contents of DATA: two storages that were
\* filled by any two sequences of add_photos_to_day calls and hold the same
\* ObjectIds for the same days have equal CHK_Y, CHK_YM and CHK_YMD tables.
C5_DigestsFollowData ==
    SameObjects("A", "B") =>
        /\ SameTable(CHK_YMD["A"], CHK_YMD["B"])
        /\ SameTable(CHK_YM["A"], CHK_YM["B"])
        /\ SameTable(CHK_Y["A"], CHK_Y["B"])

\* the same two days of two months were added in opposite orders, with other
\* peer labels
C5_Witness ==
    /\ SameObjects("A", "B")
    /\ DOMAIN DATA["A"] = {20210101, 20210201}
    /\ oids_of(DATA["A"][20210101]) # oids_of(DATA["A"][20210201])
    /\ last["A"].ymd = 20210101
    /\ last["B"].ymd = 20210201
    /\ DATA["A"] # DATA["B"]

\* ---------------------------------------------------------------- C6

\* C6: sibling isolation: add_photos_to_day(d1, E) leaves DATA[d2] and
\* CHK_YMD[d2] as they were for every day d2 other than d1, CHK_YM[m] for every
\* month m other than ymd_to_ym(d1), and CHK_Y[y] for every year y other than
\* the year of d1.
C6_SiblingIsolation ==
    \A d1 \in StorageDays, e \in EntryLists :
        LET before == Storage("A")
            after == add_txn(before, d1, e).st
        IN  /\ \A d2 \in ((DOMAIN before.DATA) \cup (DOMAIN after.DATA)) \ {d1} :
                   SameRow(before.DATA, after.DATA, d2)
            /\ \A d2 \in ((DOMAIN before.CHK_YMD) \cup (DOMAIN after.CHK_YMD)) \ {d1} :
                   SameRow(before.CHK_YMD, after.CHK_YMD, d2)
            /\ \A m \in ((DOMAIN before.CHK_YM) \cup (DOMAIN after.CHK_YM)) \ {ymd_to_ym(d1)} :
                   SameRow(before.CHK_YM, after.CHK_YM, m)
            /\ \A y \in ((DOMAIN before.CHK_Y) \cup (DOMAIN after.CHK_Y))
                            \ {ym_to_y(ymd_to_ym(d1))} :
                   SameRow(before.CHK_Y, after.CHK_Y, y)

\* the storage holds a day of another month; the last call added to 2021-02-01
\* and the digest of month 2021-01 is still that of its one day
C6_Witness ==
    /\ adds["A"] = 2
    /\ last["A"].ymd = 20210201
    /\ last["A"].new_photos # <<>>
    /\ DOMAIN DATA["A"] = {20210101, 20210201}
    /\ DATA["A"][20210101] # <<>>
    /\ CHK_YM["A"][202101] = Sha256(<<CHK_YMD["A"][20210101]>>)

\* ---------------------------------------------------------------- C7

\* row k of the table is new or has another value
Changed(t1, t2, k) == k \in DOMAIN t2 /\ (k \in DOMAIN t1 => t1[k] # t2[k])

\* C7 as claimed: every add_photos_to_day(d1, E) changes CHK_YM[ymd_to_ym(d1)]
\* and CHK_Y[ym_to_y(ymd_to_ym(d1))].
C7_AnyAddChangesParents ==
    \A d1 \in StorageDays, e \in EntryLists :
        LET before == Storage("A")
            after == add_txn(before, d1, e).st
        IN  /\ Changed(before.CHK_YM, after.CHK_YM, ymd_to_ym(d1))
            /\ Changed(before.CHK_Y, after.CHK_Y, ym_to_y(ymd_to_ym(d1)))

\* month in 1..12 and day in 1..31
CalendarDay(ymd) ==
    /\ (ymd % 100) \in 1..31
    /\ ((ymd \div 100) % 100) \in 1..12

\* C7 amended: add_photos_to_day(d1, E) on a day d1 with month in 1..12 and day
\* in 1..31, where E holds a non-empty ObjectId not yet stored for d1, changes
\* CHK_YMD[d1], CHK_YM[ymd_to_ym(d1)] and CHK_Y[ym_to_y(ymd_to_ym(d1))].
C7_NewObjectChangesParents ==
    \A d1 \in StorageDays, e \in EntryLists :
        LET before == Storage("A")
            after == add_txn(before, d1, e).st
            fresh == {o \in oids_of(e) : o # <<>> /\ o \notin oids_of(photos_at(before, d1))}
        IN  CalendarDay(d1) /\ fresh # {} =>
                /\ Changed(before.CHK_YMD, after.CHK_YMD, d1)
                /\ Changed(before.CHK_YM, after.CHK_YM, ymd_to_ym(d1))
                /\ Changed(before.CHK_Y, after.CHK_Y, ym_to_y(ymd_to_ym(d1)))

\* o1 was added to a day that held o0: the day digest is that of both ObjectIds
C7_Witness ==
    /\ adds["A"] = 2
    /\ last["A"].ymd = 20210101
    /\ last["A"].new_photos = << <<o1, <<p0>>>> >>
    /\ oids_of(DATA["A"][20210101]) = {o0, o1}
    /\ CHK_YMD["A"][20210101] = Sha256(<<0, 1>>)
    /\ CHK_YM["A"][202101] = Sha256(<<Sha256(<<0, 1>>)>>)

\* ---------------------------------------------------------------- C8

\* the keys of a list of (key, checksum), and of a list of keys
keys(l) == {l[i][1] : i \in 1..Len(l)}
elems(ks) == {ks[i] : i \in 1..Len(ks)}

\* the checksum listed for key k
checksum_of(l, k) == l[CHOOSE i \in 1..Len(l) : l[i][1] = k][2]

\* the keys listed on both sides with one checksum
agreed(l, r) == {k \in keys(l) \cap keys(r) : checksum_of(l, k) = checksum_of(r, k)}

\* no key is in two of the three lists
Disjoint3(d) ==
    /\ elems(d[1]) \cap elems(d[2]) = {}
    /\ elems(d[1]) \cap elems(d[3]) = {}
    /\ elems(d[2]) \cap elems(d[3]) = {}

\* C8 as claimed: the three lists of calc_diff(L, R) partition the keys of L and
\* R: no key is in two lists, every key of either input is in one, only_in_R is
\* within keys(R) \ keys(L), only_in_L within keys(L) \ keys(R), and L[k] # R[k]
\* for every k of differing.
C8_PartitionOfAllKeys ==
    diff # <<>> =>
        /\ Disjoint3(diff)
        /\ elems(diff[1]) \cup elems(diff[2]) \cup elems(diff[3]) = keys(local) \cup keys(remote)
        /\ elems(diff[1]) \subseteq keys(remote) \ keys(local)
        /\ elems(diff[2]) \subseteq keys(local) \ keys(remote)
        /\ \A k \in elems(diff[3]) :
               k \in keys(local) \cap keys(remote)
                   /\ checksum_of(local, k) # checksum_of(remote, k)

\* C8 amended: the three lists of calc_diff(L, R) partition the keys of L and R
\* other than the keys both sides list with equal digests: no key is in two
\* lists, every key of either input that is not listed with equal digests on
\* both sides is in one, only_in_R is within keys(R) \ keys(L), only_in_L
\* within keys(L) \ keys(R), and L[k] # R[k] for every k of differing.
C8_PartitionOfUnequalKeys ==
    diff # <<>> =>
        /\ Disjoint3(diff)
        /\ elems(diff[1]) \cup elems(diff[2]) \cup elems(diff[3])
               = (keys(local) \cup keys(remote)) \ agreed(local, remote)
        /\ elems(diff[1]) \subseteq keys(remote) \ keys(local)
        /\ elems(diff[2]) \subseteq keys(local) \ keys(remote)
        /\ \A k \in elems(diff[3]) :
               k \in keys(local) \cap keys(remote)
                   /\ checksum_of(local, k) # checksum_of(remote, k)

\* calc_diff has returned three non-empty lists for inputs that agree on a key
C8_Witness ==
    /\ diff # <<>>
    /\ diff[1] # <<>>
    /\ diff[2] # <<>>
    /\ diff[3] # <<>>
    /\ agreed(local, remote) # {}

\* ---------------------------------------------------------------- C9

\* C9: a sync_with_peers call on a node whose sync_mutex is held returns
\* SyncInProcess in that step: it is never made to wait, it holds no copy of
\* the roster, it has called no RemotePeer method, and the tables, the rosters,
\* the lock and the other thread's place in its own sync_with_peers are as they
\* were.
C9_SyncExclusion ==
    /\ [](\A u \in Threads, n \in Nodes :
              thread[u].pc = "idle" /\ sync_mutex[n] => ENABLED sync_with_peers(u, n))
    /\ [][\A u \in Threads :
              (/\ thread[u].pc = "idle"
               /\ thread'[u] # thread[u]
               /\ thread'[u] # IdleThread
               /\ sync_mutex[thread'[u].node])
              => /\ thread'[u].pc = "idle"
                 /\ thread'[u].result = "SyncInProcess"
                 /\ thread'[u].peers = <<>>
                 /\ thread'[u].todo = <<>>
                 /\ thread'[u].calls = <<>>
                 /\ UNCHANGED <<DATA, CHK_YMD, CHK_YM, CHK_Y, last, peers, sync_mutex>>
                 /\ \A v \in Threads \ {u} :
                        /\ thread'[v].pc = thread[v].pc
                        /\ thread'[v].todo = thread[v].todo
                        /\ thread'[v].peers = thread[v].peers
                        /\ thread'[v].calls = thread[v].calls]_vars

\* one thread is in the middle of sync_with_peers on a node, the other has just
\* been turned away from the same node
C9_Witness ==
    \E t \in Threads, u \in Threads :
        /\ thread[t].pc = "running"
        /\ thread[t].todo # <<>>
        /\ thread[t].calls # <<>>
        /\ thread[u].pc = "idle"
        /\ thread[u].result = "SyncInProcess"
        /\ thread[u].node = thread[t].node
        /\ sync_mutex[thread[t].node]

\* --------------------------------------------------------------- C10

RECURSIVE AscendingOids(_)
\* the ObjectIds of S in ascending byte order
AscendingOids(S) ==
    IF S = {} THEN <<>>
    ELSE LET m == CHOOSE x \in S : \A y \in S \ {x} : BytesLess(x, y)
         IN  <<m>> \o AscendingOids(S \ {m})

\* C10: I1: for every day in DATA, CHK_YMD has a row for it that is the digest
\* of the day's ObjectIds concatenated in ascending ObjectId order (peer labels
\* contribute nothing), and the value the last add_photos_to_day(ymd, E)
\* returned is CHK_YMD[ymd].
C10_DayDigest ==
    /\ \A ymd \in DOMAIN DATA["A"] :
           /\ ymd \in DOMAIN CHK_YMD["A"]
           /\ CHK_YMD["A"][ymd] = Sha256(Concat(AscendingOids(oids_of(DATA["A"][ymd]))))
    /\ adds["A"] > 0 =>
           /\ last["A"].ymd \in DOMAIN CHK_YMD["A"]
           /\ last["A"].result = CHK_YMD["A"][last["A"].ymd]

\* a day holds o0 and o1 with labels, added as the list (o1, o0)
C10_Witness ==
    /\ last["A"].new_photos = << <<o1, <<p1>>>>, <<o0, <<p0>>>> >>
    /\ oids_of(DATA["A"][last["A"].ymd]) = {o0, o1}
    /\ peers_of(DATA["A"][last["A"].ymd], o1) = {p1}
    /\ last["A"].result = Sha256(<<0, 1>>)

\* --------------------------------------------------------------- C11

\* the digest of the rows of tbl with keys in lo..hi, in ascending key order
digest_of_range(tbl, lo, hi) ==
    Sha256([i \in 1..Len(Ascending({k \in DOMAIN tbl : lo <= k /\ k <= hi})) |->
                tbl[Ascending({k \in DOMAIN tbl : lo <= k /\ k <= hi})[i]]])

\* C11: I2-I4 after any sequence of add_photos_to_day calls: for every day of
\* DATA the rows CHK_YM[ymd/100] and CHK_Y[ymd/10000] exist; every CHK_YM[ym]
\* is the digest of the CHK_YMD[x] with x in ym*100+1..ym*100+31, ascending;
\* every CHK_Y[y] is the digest of the CHK_YM[x] with x in y*100+1..y*100+12,
\* ascending.
C11_ParentDigests ==
    /\ \A ymd \in DOMAIN DATA["A"] :
           /\ (ymd \div 100) \in DOMAIN CHK_YM["A"]
           /\ (ymd \div 10000) \in DOMAIN CHK_Y["A"]
    /\ \A ym \in DOMAIN CHK_YM["A"] :
           CHK_YM["A"][ym] = digest_of_range(CHK_YMD["A"], ym * 100 + 1, ym * 100 + 31)
    /\ \A y \in DOMAIN CHK_Y["A"] :
           CHK_Y["A"][y] = digest_of_range(CHK_YM["A"], y * 100 + 1, y * 100 + 12)

\* two days of one month hold different ObjectIds, the later day added first:
\* the month digest is that of the two day digests, earlier day first
C11_Witness ==
    /\ DOMAIN DATA["A"] = {20210101, 20210102}
    /\ last["A"].ymd = 20210101
    /\ CHK_YMD["A"][20210101] = Sha256(o1)
    /\ CHK_YMD["A"][20210102] = Sha256(o0)
    /\ CHK_YM["A"][202101] = Sha256(<<Sha256(o1), Sha256(o0)>>)
    /\ CHK_Y["A"][2021] = Sha256(<<CHK_YM["A"][202101]>>)

\* --------------------------------------------------------------- C12

\* C12: I5 after any sequence of add_photos_to_day calls, also with lists that
\* repeat an ObjectId within one call: in every stored day the ObjectIds are
\* strictly ascending, so pairwise distinct and sorted.
C12_DaySortedUnique ==
    \A ymd \in DOMAIN DATA["A"] :
        \A i \in 1..Len(DATA["A"][ymd]), j \in 1..Len(DATA["A"][ymd]) :
            i < j => BytesLess(DATA["A"][ymd][i][1], DATA["A"][ymd][j][1])

\* the list (o1, o0, o1) was added to a day: two rows, o0 before o1, and o1
\* with the labels of both of its entries
C12_Witness ==
    /\ Len(last["A"].new_photos) = 3
    /\ Len(DATA["A"][last["A"].ymd]) = 2
    /\ DATA["A"][last["A"].ymd][1][1] = o0
    /\ DATA["A"][last["A"].ymd][2] = <<o1, <<p0, p1>>>>

\* --------------------------------------------------------------- C13

\* the table a read queries
queried(op) ==
    CASE op = "get_years_checksums" -> CHK_Y["A"]
      [] op = "get_months_checksum" -> CHK_YM["A"]
      [] op = "get_photos" -> DATA["A"]
      [] OTHER -> CHK_YMD["A"]

\* C13: a read returns no error, returns the empty sequence (get_photos:
\* absent) when the table it queries has never been written, and leaves the
\* four tables as they were: no table comes to exist and no row changes.  (A
\* step of ReadSpec that is no add_photos_to_day call is a read, and answer
\* is what it returned.)
C13_AbsenceAndReads ==
    [][answer'.op # "none" /\ adds' = adds =>
           /\ answer'.result.ok
           /\ ~table_exists(queried(answer'.op)) => answer'.result.value = <<>>
           /\ UNCHANGED <<DATA, CHK_YMD, CHK_YM, CHK_Y>>
           /\ table_exists(DATA'["A"]) = table_exists(DATA["A"])
           /\ table_exists(CHK_YMD'["A"]) = table_exists(CHK_YMD["A"])
           /\ table_exists(CHK_YM'["A"]) = table_exists(CHK_YM["A"])
           /\ table_exists(CHK_Y'["A"]) = table_exists(CHK_Y["A"])]_vars

\* get_photos on a storage nothing was added to has returned Ok(None)
C13_Witness ==
    /\ adds["A"] = 0
    /\ DATA["A"] = EmptyTable
    /\ answer.op = "get_photos"
    /\ answer.result = Ok(<<>>)

\* --------------------------------------------------------------- C14

\* the keys both lists hold with two digests
differing(l, r) == {k \in keys(l) \cap keys(r) : checksum_of(l, k) # checksum_of(r, k)}

\* the years and months whose digests thread t has found equal on both sides,
\* and those it has found on both sides with differing digests, for the peer at hand
compared_equal(t) ==
    UNION {agreed(thread[t].compared[i][1], thread[t].compared[i][2]) :
               i \in 1..Len(thread[t].compared)}
compared_differing(t) ==
    UNION {differing(thread[t].compared[i][1], thread[t].compared[i][2]) :
               i \in 1..Len(thread[t].compared)}

\* C14: Merkle pruning: every get_months_checksum(y) call of a running
\* sync_with_peers is for a year both sides list with differing digests, every
\* get_days_checksum(ym) call is for a month both sides list with differing
\* digests, and no get_existing_days_in_range, get_data or propose call is for
\* a day of a year or of a month whose digests compared equal.
C14_MerklePruning ==
    [][\A t \in Threads :
           thread[t].pc = "running" /\ Len(thread'[t].calls) = Len(thread[t].calls) + 1 =>
               LET c == thread'[t].calls[Len(thread'[t].calls)]
               IN  /\ c.method \in {"get_months_checksum", "get_days_checksum"} =>
                          c.arg \in compared_differing(t)
                   /\ c.method \in {"get_existing_days_in_range", "get_data", "propose"} =>
                          /\ ymd_to_ym(c.arg) \notin compared_equal(t)
                          /\ ym_to_y(ymd_to_ym(c.arg)) \notin compared_equal(t)]_vars

\* both nodes hold a day of 2021, the year digests compared equal, and
\* sync_with_peers has returned Ok after the two get_years_checksums calls
C14_Witness ==
    \E t \in Threads :
        /\ thread[t].pc = "idle"
        /\ thread[t].result = "Ok"
        /\ thread[t].undisturbed
        /\ compared_equal(t) = {2021}
        /\ Len(thread[t].calls) = 2
        /\ DATA["A"] # EmptyTable
        /\ DATA["B"] # EmptyTable

\* --------------------------------------------------------------- C15

\* every digest of the tables st is the digest of what it covers
digests_fresh(st) ==
    /\ \A ymd \in DOMAIN st.DATA :
           /\ ymd \in DOMAIN st.CHK_YMD
           /\ st.CHK_YMD[ymd] = calc_photos_checksum(st.DATA[ymd])
           /\ ymd_to_ym(ymd) \in DOMAIN st.CHK_YM
           /\ ym_to_y(ymd_to_ym(ymd)) \in DOMAIN st.CHK_Y
    /\ \A ym \in DOMAIN st.CHK_YM :
           st.CHK_YM[ym] = digest_of_range(st.CHK_YMD, ym * 100 + 1, ym * 100 + 31)
    /\ \A y \in DOMAIN st.CHK_Y :
           st.CHK_Y[y] = digest_of_range(st.CHK_YM, y * 100 + 1, y * 100 + 12)

\* C15: add_photos_to_day is all-or-nothing: the tables the reads see change
\* only in the commit of a write transaction, and then to the complete result
\* of the call; while the call runs and after it failed with an engine error
\* they are as before the call; and in the tables the reads see no digest of
\* any tier is ever stale.
C15_AllOrNothing ==
    /\ [](digests_fresh(Storage("A")))
    /\ [][Storage("A")' # Storage("A") =>
              /\ write_txn["A"] # NoTxn
              /\ write_txn'["A"] = NoTxn
              /\ Storage("A")' = add_txn(Storage("A"), write_txn["A"].ymd,
                                         write_txn["A"].new_photos).st]_vars

\* get_photos of the day being written was called after the transaction had
\* written the day and its digest, and returned absent; then the call failed
\* and the storage is still empty
C15_Witness ==
    /\ answer.op = "get_photos"
    /\ answer.txn = "month"
    /\ answer.result = Ok(<<>>)
    /\ adds["A"] = 1
    /\ write_txn["A"] = NoTxn
    /\ Storage("A") = EmptyStorage

\* --------------------------------------------------------------- C16

\* thread t takes a step of sync_with_peers that makes a RemotePeer call
sync_step(t) ==
    \/ sync_years(t) \/ sync_years_diff(t) \/ sync_months(t) \/ sync_months_diff(t)
    \/ sync_days(t) \/ sync_days_diff(t) \/ fill_gaps(t) \/ fill_get_data(t)
    \/ fill_propose(t)

\* C16: a RemotePeer call of sync_with_peers that fails ends the sync there:
\* sync_with_peers returns the error in that step, the tables are as the
\* proposes committed so far left them, and the thread makes none of the calls
\* that were left to do, for this peer or for the rest of the roster.
C16_ErrorAbortsSync ==
    /\ [][\A t \in Threads :
              thread[t].pc = "running" /\ thread'[t].result = "PeerError" =>
                  /\ thread'[t].pc = "idle"
                  /\ thread'[t].calls = thread[t].calls
                  /\ ~sync_mutex'[thread[t].node]
                  /\ UNCHANGED <<DATA, CHK_YMD, CHK_YM, CHK_Y, last>>]_vars
    /\ [](\A t \in Threads : thread[t].result = "PeerError" => ~ENABLED sync_step(t))

\* sync_with_peers has returned the error after a propose had committed, with
\* calls for this peer and another peer of the roster still left to do: the
\* day proposed to holds both ObjectIds
C16_Witness ==
    \E t \in Threads :
        /\ thread[t].pc = "idle"
        /\ thread[t].result = "PeerError"
        /\ thread[t].todo # <<>>
        /\ thread[t].peers # <<>>
        /\ \E i \in 1..Len(thread[t].calls) :
               /\ thread[t].calls[i].method = "propose"
               /\ Len(DATA[thread[t].calls[i].on][thread[t].calls[i].arg]) = 2

\* --------------------------------------------------------------- C17

\* the calls thread t has made for the peer at hand: those from its last
\* self.get_years_checksums() on
round_calls(t) ==
    LET cs == thread[t].calls
        starts == {i \in 1..Len(cs) :
                       cs[i].method = "get_years_checksums" /\ cs[i].on = thread[t].node}
        first == CHOOSE i \in starts : \A j \in starts : j <= i
    IN  IF starts = {} THEN <<>> ELSE SubSeq(cs, first, Len(cs))

\* thread t makes a call in this step
calls_next(t) ==
    thread[t].pc = "running" /\ Len(thread'[t].calls) = Len(thread[t].calls) + 1

\* the call thread t makes in this step
next_call(t) == thread'[t].calls[Len(thread'[t].calls)]

\* year before month before day: the months of a year are asked for after the
\* years, the days of a month after the months of its year; and the years and
\* months asked for on one node come in ascending order
tiers_in_order(t, c) ==
    /\ c.method = "get_months_checksum" =>
           \E i \in 1..Len(round_calls(t)) :
               /\ round_calls(t)[i].method = "get_years_checksums"
               /\ round_calls(t)[i].on # thread[t].node
    /\ c.method = "get_days_checksum" =>
           \E i \in 1..Len(round_calls(t)) :
               /\ round_calls(t)[i].method = "get_months_checksum"
               /\ round_calls(t)[i].on # thread[t].node
               /\ round_calls(t)[i].arg = ym_to_y(c.arg)
    /\ c.method \in {"get_months_checksum", "get_days_checksum"} =>
           \A i \in 1..Len(round_calls(t)) :
               round_calls(t)[i].method = c.method /\ round_calls(t)[i].on = c.on =>
                   round_calls(t)[i].arg < c.arg

\* the get_data calls made earlier for the peer at hand on the node and for the
\* month of get_data call c
earlier_days(t, c) ==
    {round_calls(t)[i].arg : i \in {j \in 1..Len(round_calls(t)) :
         /\ round_calls(t)[j].method = "get_data"
         /\ round_calls(t)[j].on = c.on
         /\ ymd_to_ym(round_calls(t)[j].arg) = ymd_to_ym(c.arg)}}

\* C17 as claimed: in the calls made for one peer the tiers come in the order
\* year, month, day, the keys of a tier ascending, and the days of one month
\* on which get_data is called on one node come in ascending ymd order.
C17_DaysAscending ==
    [][\A t \in Threads :
           calls_next(t) =>
               /\ tiers_in_order(t, next_call(t))
               /\ next_call(t).method = "get_data" =>
                      \A d \in earlier_days(t, next_call(t)) : d < next_call(t).arg]_vars

\* C17 amended: in the calls made for one peer the tiers come in the order
\* year, month, day, the keys of a tier ascending, and the days of one month
\* on which get_data is called on one node come in two ascending runs: first
\* the days the other side lacks, then the days both sides hold with differing
\* digests.
C17_DaysInTwoRuns ==
    [][\A t \in Threads :
           calls_next(t) =>
               /\ tiers_in_order(t, next_call(t))
               /\ next_call(t).method = "get_data" =>
                      \A d \in earlier_days(t, next_call(t)) :
                          IF (d \in compared_differing(t))
                                 = (next_call(t).arg \in compared_differing(t))
                          THEN d < next_call(t).arg
                          ELSE next_call(t).arg \in compared_differing(t)]_vars

\* get_data was called on B for 2021-01-02, which A lacked, and then for
\* 2021-01-01, which both held with differing digests
C17_Witness ==
    \E t \in Threads :
        /\ thread[t].node = "A"
        /\ \E i \in 1..Len(thread[t].calls), j \in 1..Len(thread[t].calls) :
               /\ i < j
               /\ thread[t].calls[i] = call("get_data", "B", 20210102)
               /\ thread[t].calls[j] = call("get_data", "B", 20210101)
        /\ 20210101 \in compared_differing(t)

\* --------------------------------------------------------------- C18

RECURSIVE contacted_in(_, _)
\* the peers on which the calls cs of a sync on node n asked for the year
\* digests, one for each round, in the order of the rounds
contacted_in(cs, n) ==
    IF cs = <<>> THEN <<>>
    ELSE IF Head(cs).method = "get_years_checksums" /\ Head(cs).on # n
         THEN <<Head(cs).on>> \o contacted_in(Tail(cs), n)
         ELSE contacted_in(Tail(cs), n)

\* the peers thread t has contacted in its sync_with_peers
contacted(t) == contacted_in(thread[t].calls, thread[t].node)

\* a sync_with_peers is running on node n
syncing(n) == \E t \in Threads : thread[t].pc = "running" /\ thread[t].node = n

\* C18: sync_with_peers works on the roster as it was at its start: add_peer is
\* enabled while a sync runs, the roster copy of a running sync never changes,
\* every call of the sync goes to the node or to a peer of the copy, the peers
\* are contacted in the order of the copy, a sync that returns Ok has contacted
\* all of them, and a sync that starts copies the roster with all peers added
\* so far.
C18_RosterSnapshot ==
    /\ [](\A p \in RosterNodes \ {"A"} :
              /\ syncing("A")
              /\ Len(peers["A"]) < MaxRoster
              /\ \A i \in 1..Len(peers["A"]) : peers["A"][i] # p
              => ENABLED late_add_peer(p))
    /\ [](\A t \in Threads :
              thread[t].pc = "running" \/ thread[t].result \in {"Ok", "PeerError"} =>
                  /\ Len(contacted(t)) <= Len(thread[t].roster)
                  /\ contacted(t) = SubSeq(thread[t].roster, 1, Len(contacted(t)))
                  /\ \A i \in 1..Len(thread[t].calls) :
                         \/ thread[t].calls[i].on = thread[t].node
                         \/ \E k \in 1..Len(thread[t].roster) :
                                thread[t].calls[i].on = thread[t].roster[k]
                  /\ thread[t].result = "Ok" => contacted(t) = thread[t].roster)
    /\ [][\A t \in Threads :
              /\ thread[t].pc = "running" /\ thread'[t].pc = "running" =>
                     thread'[t].roster = thread[t].roster
              /\ thread[t].pc = "idle" /\ thread'[t].pc = "running" =>
                     thread'[t].roster = peers[thread'[t].node]]_vars

\* C was added to A's roster while a sync of A ran on the roster [B]: the sync
\* has contacted B, has nothing left to do and has not contacted C
C18_Witness ==
    \E t \in Threads :
        /\ thread[t].pc = "running"
        /\ thread[t].node = "A"
        /\ thread[t].roster = <<"B">>
        /\ peers["A"] = <<"B", "C">>
        /\ contacted(t) = <<"B">>
        /\ thread[t].todo = <<>>
        /\ thread[t].peers = <<>>

\* --------------------------------------------------------------- C19

\* the keys both sides list with differing checksums
disagreed(l, r) == {k \in keys(l) \cap keys(r) : checksum_of(l, k) # checksum_of(r, k)}

\* C19: for local and remote sorted strictly ascending by key, calc_diff
\* returns the keys of remote absent from local, the keys of local absent from
\* remote, and the keys of both with differing digests, each list in strictly
\* ascending order, and no list holds a key both sides list with equal digests.
C19_CalcDiffExact ==
    diff # <<>> =>
        /\ diff[1] = Ascending(keys(remote) \ keys(local))
        /\ diff[2] = Ascending(keys(local) \ keys(remote))
        /\ diff[3] = Ascending(disagreed(local, remote))
        /\ \A i \in 1..3 :
               /\ \A j \in 1..(Len(diff[i]) - 1) : diff[i][j] < diff[i][j + 1]
               /\ elems(diff[i]) \cap agreed(local, remote) = {}

\* calc_diff has returned two keys missing on local and one differing key, for
\* inputs that agree on another key
C19_Witness ==
    /\ diff # <<>>
    /\ Len(diff[1]) = 2
    /\ Len(diff[3]) = 1
    /\ agreed(local, remote) # {}

\* --------------------------------------------------------------- C20

\* no label is twice in peer list ps
no_label_twice(ps) == \A j \in 1..Len(ps), k \in 1..Len(ps) : j < k => ps[j] # ps[k]

\* C20: peer lists are sets: after any sequence of add_photos_to_day calls the
\* peer list stored for every ObjectId holds no label twice, and a call whose
\* list has entries for an ObjectId stored already leaves for it the union of
\* the labels stored before and the labels of these entries.
C20_PeerListsAreSets ==
    /\ [](\A ymd \in DOMAIN DATA["A"] :
              \A i \in 1..Len(DATA["A"][ymd]) : no_label_twice(DATA["A"][ymd][i][2]))
    /\ [][adds'["A"] # adds["A"] =>
              LET ymd == last'["A"].ymd
                  before == photos_at(Storage("A"), ymd)
                  after == photos_at(Storage("A")', ymd)
              IN  \A o \in oids_of(before) \cap oids_of(last'["A"].new_photos) :
                      peers_of(after, o)
                          = peers_of(before, o) \cup peers_of(last'["A"].new_photos, o)]_vars

\* --------------------------------------------------------------- C21

\* the days thread t has found on both sides with differing digests, for the
\* peer at hand
differing_days(t) == {k \in compared_differing(t) : k > 9999999}

\* photos1 and photos2 hold the same ObjectIds, each with the same labels
same_objects(photos1, photos2) ==
    /\ oids_of(photos1) = oids_of(photos2)
    /\ \A o \in oids_of(photos1) : peers_of(photos1, o) = peers_of(photos2, o)

\* photos holds the ObjectIds of photos1 and of photos2, each with the labels it
\* has in either
union_of(photos, photos1, photos2) ==
    /\ oids_of(photos) = oids_of(photos1) \cup oids_of(photos2)
    /\ \A o \in oids_of(photos) :
           peers_of(photos, o) = peers_of(photos1, o) \cup peers_of(photos2, o)

\* thread t has made every call of sync_with_peers for the peer at hand
round_done(t) ==
    /\ thread[t].calls # <<>>
    /\ thread[t].todo = <<>>
    /\ thread[t].pc = "running" \/ thread[t].result = "Ok"

\* thread t has called method on node n for ymd, for the peer at hand
called(t, method, n, ymd) ==
    \E i \in 1..Len(round_calls(t)) : round_calls(t)[i] = call(method, n, ymd)

\* C21: symmetric hole-filling: for every day the day-level diff found on both
\* sides with differing digests, sync_with_peers calls propose on the node and
\* on the peer; the propose on the node leaves there the union of what the two
\* sides held, ObjectIds and labels, and the peer as it was; the propose on the
\* peer leaves there the union too; and when the calls for the peer are done
\* both sides hold the same ObjectIds with the same labels for the day.
C21_SymmetricFill ==
    /\ [](\A t \in Threads :
              round_done(t) =>
                  \A d \in differing_days(t) :
                      /\ called(t, "propose", thread[t].node, d)
                      /\ \E n \in Nodes \ {thread[t].node} : called(t, "propose", n, d)
                      /\ \A n \in Nodes :
                             same_objects(photos_at(Storage(n), d),
                                          photos_at(Storage(thread[t].node), d)))
    /\ [][\A t \in Threads :
              /\ at(t, "propose")
              /\ Len(thread'[t].calls) = Len(thread[t].calls) + 1
              /\ Head(thread[t].todo).key \in differing_days(t)
              => \A src \in Nodes, dst \in Nodes, d \in Days :
                     /\ Head(thread[t].todo).src = src
                     /\ Head(thread[t].todo).dst = dst
                     /\ Head(thread[t].todo).key = d
                     => /\ union_of(photos_at(Storage(dst)', d),
                                    photos_at(Storage(src), d), photos_at(Storage(dst), d))
                        /\ photos_at(Storage(src)', d) = photos_at(Storage(src), d)
                        /\ dst # thread[t].node =>
                               same_objects(photos_at(Storage(dst)', d),
                                            photos_at(Storage(src), d))]_vars

\* a sync of A with B is done for a day on which A held o0 with label p0 and B
\* held o0 with label p1 and o1: both hold o0 with both labels, and o1
C21_Witness ==
    \E t \in Threads :
        /\ round_done(t)
        /\ thread[t].node = "A"
        /\ 20210101 \in differing_days(t)
        /\ called(t, "propose", "A", 20210101)
        /\ called(t, "propose", "B", 20210101)
        /\ oids_of(photos_at(Storage("A"), 20210101)) = {o0, o1}
        /\ peers_of(photos_at(Storage("A"), 20210101), o0) = {p0, p1}
        /\ peers_of(photos_at(Storage("B"), 20210101), o0) = {p0, p1}
        /\ photos_at(Storage("A"), 20210101) # photos_at(Storage("B"), 20210101)

\* --------------------------------------------------------------- C22

\* every day row, ObjectId and label of table data1 is in table data2
data_within(data1, data2) ==
    \A ymd \in DOMAIN data1 :
        /\ ymd \in DOMAIN data2
        /\ \A o \in oids_of(data1[ymd]) :
               /\ o \in oids_of(data2[ymd])
               /\ peers_of(data1[ymd], o) \subseteq peers_of(data2[ymd], o)

\* C22: the catalog is grow-only on every node: no step of add_photos_to_day,
\* propose or sync_with_peers removes a day row, an ObjectId of a day, a label
\* of an ObjectId, or a key of CHK_Y, CHK_YM or CHK_YMD.
C22_GrowOnly ==
    [][\A n \in Nodes :
           /\ data_within(DATA[n], DATA'[n])
           /\ DOMAIN CHK_YMD[n] \subseteq DOMAIN CHK_YMD'[n]
           /\ DOMAIN CHK_YM[n] \subseteq DOMAIN CHK_YM'[n]
           /\ DOMAIN CHK_Y[n] \subseteq DOMAIN CHK_Y'[n]]_vars

\* while A's sync with B ran, propose was called from outside; the sync has
\* called propose on A, and A holds o0 with both labels, and o1
C22_Witness ==
    \E t \in Threads :
        /\ thread[t].pc = "running"
        /\ thread[t].node = "A"
        /\ ~thread[t].undisturbed
        /\ called(t, "propose", "A", 20210101)
        /\ oids_of(photos_at(Storage("A"), 20210101)) = {o0, o1}
        /\ peers_of(photos_at(Storage("A"), 20210101), o0) = {p0, p1}

\* --------------------------------------------------------------- C23

\* the days from lo to hi for which table data holds ObjectIds
days_with_objects(data, lo, hi) ==
    {ymd \in DOMAIN data : lo <= ymd /\ ymd <= hi /\ data[ymd] # <<>>}

\* C23: get_existing_days_in_range(lo, hi) returns, in ascending order, exactly
\* the days from lo to hi for which ObjectIds are stored: every day returned has
\* a non-empty row in DATA and every day in the range with a non-empty row is
\* returned, in every state reachable by add_photos_to_day calls.
C23_ExistingDays ==
    \A interval \in ReadIntervals :
        get_existing_days_in_range(Storage("A"), interval[1], interval[2])
            = Ascending(days_with_objects(DATA["A"], interval[1], interval[2]))

\* --------------------------------------------------------------- C24

\* the days of table data from lo to hi
days_in(data, lo, hi) == {ymd \in DOMAIN data : lo <= ymd /\ ymd <= hi}

\* storages a and b hold the same days from lo to hi, each with the same ObjectIds
same_days(a, b, lo, hi) ==
    /\ days_in(DATA[a], lo, hi) = days_in(DATA[b], lo, hi)
    /\ \A ymd \in days_in(DATA[a], lo, hi) :
           oids_of(DATA[a][ymd]) = oids_of(DATA[b][ymd])

\* equal day digests: the same ObjectIds for the day
day_digest_sound(a, b) ==
    \A ymd \in (DOMAIN CHK_YMD[a]) \cap (DOMAIN CHK_YMD[b]) :
        CHK_YMD[a][ymd] = CHK_YMD[b][ymd] =>
            oids_of(photos_at(Storage(a), ymd)) = oids_of(photos_at(Storage(b), ymd))

\* equal month digests: the same days in the month, each with the same ObjectIds
month_digest_sound(a, b) ==
    \A ym \in (DOMAIN CHK_YM[a]) \cap (DOMAIN CHK_YM[b]) :
        CHK_YM[a][ym] = CHK_YM[b][ym] =>
            same_days(a, b, ymd_interval_for_ym(ym)[1], ymd_interval_for_ym(ym)[2])

\* equal year digests: the same days in the year, each with the same ObjectIds
year_digest_sound(a, b) ==
    \A y \in (DOMAIN CHK_Y[a]) \cap (DOMAIN CHK_Y[b]) :
        CHK_Y[a][y] = CHK_Y[b][y] =>
            same_days(a, b, ymd_interval_for_y(y)[1], ymd_interval_for_y(y)[2])

\* C24: the digest hierarchy is sound for pruning: for two storages reachable by
\* add_photos_to_day calls, equal CHK_Y digests of a year imply the same days
\* within the year with the same ObjectIds on each, equal CHK_YM digests of a
\* month imply the same for the month, and equal CHK_YMD digests of a day imply
\* the same ObjectIds for the day.
C24_DigestsSound ==
    /\ year_digest_sound("A", "B")
    /\ month_digest_sound("A", "B")
    /\ day_digest_sound("A", "B")

\* --------------------------------------------------------------- C25

\* the threads inside sync_with_peers on node n
inside(n) == {t \in Threads : thread[t].pc = "running" /\ thread[t].node = n}

\* C25: sync lock discipline: at most one sync_with_peers per node is past
\* try_lock, sync_mutex is held by it from try_lock, before the roster is
\* copied, until it returns, sync_mutex is free whenever none is inside, whether
\* the last returned Ok or an error, and a sync_with_peers called on a node
\* where none is inside is not turned away with SyncInProcess.
C25_LockDiscipline ==
    /\ [](\A n \in RosterNodes :
              /\ Cardinality(inside(n)) <= 1
              /\ sync_mutex[n] = (inside(n) # {}))
    /\ [][\A t \in Threads :
              /\ thread[t].pc = "running" /\ thread'[t].pc = "idle" =>
                     /\ thread'[t].result \in {"Ok", "PeerError"}
                     /\ ~sync_mutex'[thread[t].node]
              /\ thread[t].pc = "idle" /\ thread'[t].pc = "running" =>
                     /\ inside(thread'[t].node) = {}
                     /\ sync_mutex'[thread'[t].node]
                     /\ thread'[t].roster = peers[thread'[t].node]
              /\ (\E n \in RosterNodes :
                      /\ inside(n) = {}
                      /\ thread[t].pc = "idle"
                      /\ thread'[t].node = n
                      /\ thread'[t] # thread[t]
                      /\ thread'[t] # IdleThread)
                 => thread'[t].pc = "running"]_vars

\* a sync of A has returned an error after its first calls, with peers of the
\* roster left, and A's sync_mutex is free
C25_Witness ==
    \E t \in Threads :
        /\ thread[t].pc = "idle"
        /\ thread[t].node = "A"
        /\ thread[t].result = "PeerError"
        /\ thread[t].calls # <<>>
        /\ thread[t].peers # <<>>
        /\ inside("A") = {}
        /\ ~sync_mutex["A"]

\* --------------------------------------------------------------- C26

\* C26: no deadlock between mutually registered nodes: while A.sync_with_peers()
\* and B.sync_with_peers() run concurrently, the next get_* or propose call of
\* each is served whether or not the node called holds its sync_mutex, neither
\* sync returns SyncInProcess, and both eventually return Ok.
C26_NoDeadlock ==
    /\ [](\A t \in Threads :
              /\ thread[t].pc = "running" /\ ~at(t, "propose") => ENABLED sync_queries(t)
              /\ at(t, "propose") => propose_ready(t))
    /\ [][\A t \in Threads : thread'[t].result # "SyncInProcess"]_vars
    /\ \A t \in Threads :
           thread[t].pc = "running" ~> (thread[t].pc = "idle" /\ thread[t].result = "Ok")

\* both syncs are running and hold their sync_mutex; A's sync has proposed to
\* B and is about to again, B's sync has proposed to A
C26_Witness ==
    /\ sync_mutex["A"] /\ sync_mutex["B"]
    /\ thread["t1"].pc = "running" /\ thread["t2"].pc = "running"
    /\ at("t1", "propose")
    /\ Head(thread["t1"].todo).dst = "B"
    /\ called("t2", "propose", "A", 20210101)

====
